---- MODULE Spec2Model ----
(***************************************************************************)
(* Retained-mode UI core of src/src/gui/mod.rs (struct UserInterface):     *)
(* the widget pool, the parent/child links, the mouse capture, the layout  *)
(* passes, the drawing pass, hit testing and event routing.                *)
(*                                                                         *)
(* Lengths are integers in tenths of a pixel (200.0 px is 2000), so that   *)
(* the 0.9 px clip inflation of draw_node is the integer 9.  The sizes and *)
(* positions the host passes are multiples of 2 px, which keeps the one    *)
(* multiplication by 0.5 of arrange exact.                                 *)
(***************************************************************************)
EXTENDS Integers, Sequences, FiniteSets, TLC

\* ------------------------------------------------------------------------
\* Bounds of the model
\* ------------------------------------------------------------------------

\* Slots of the widget pool under Spec (the root canvas included).
MaxNodes == 3

\* Buttons the host creates under SpecInput (three nodes each).
MaxButtons == 1

\* Frames drawn under SpecInput and SpecFrame (every draw appends to
\* command_indices).
MaxFrames == 1

\* Widgets the host creates under SpecFrame (plain nodes and buttons).
MaxWidgets == 3

\* Frames drawn under SpecText.
MaxDraws == 2

\* The largest KindId a visitor holds under SpecTexture (the field is a u32).
MaxKindId == 31

\* The longest slice given to is_slice_equal_permutation under SpecSlices.
MaxSliceLen == 3

\* The editor: the scene handles the engine gives out.
MaxSpawned == 3

\* ------------------------------------------------------------------------
\* Pool<UINode> and Handle<UINode> (crate::utils::pool)
\* ------------------------------------------------------------------------

\* Handle::none(): the handle that resolves in no pool.
NONE == 0

\* A handle that is not Handle::none() and resolves to no slot of the pool
\* (index out of range, or generation mismatch).
STALE == -1

\* Handle::is_none
is_none(h) == h = NONE

\* A slot of the pool that Pool::free vacated.  Its generation was bumped, so
\* no handle resolves to it any more; spawn never hands the same handle out
\* again, which is modelled by leaving the slot in place.
Vacant == [vacant |-> TRUE]

\* Pool::is_valid_handle: the handle names a slot that holds a node.  The
\* pool is the sequence of its slots and a handle is the index of its slot.
is_valid_handle(pool, h) == h \in DOMAIN pool /\ pool[h] # Vacant

\* Pool::free: the slot is vacated; nothing else is touched.
free(pool, h) == IF is_valid_handle(pool, h) THEN [pool EXCEPT ![h] = Vacant] ELSE pool

\* Pool::spawn: the node takes the next slot; the handle is its index.
spawn(pool, node) == [pool |-> Append(pool, node), handle |-> Len(pool) + 1]

\* Pool<Font>::borrow(..).is_some() for a font cache given as the set of the
\* font handles that resolve in it.
font_resolves(font_cache, font) == font \in font_cache

\* ------------------------------------------------------------------------
\* f32 arithmetic on tenths of a pixel
\* ------------------------------------------------------------------------

\* width/height "automatic": std::f32::NAN.  No explicit dimension of the
\* model is -0.1 px, so -1 is free to stand for it: NaN > 0.0 is false, as
\* in f32.
NaN == -1

\* std::f32::INFINITY.
INFINITY == 100000000

is_nan(a) == a = NaN

\* maxf
maxf(a, b) == IF a > b THEN a ELSE b

\* minf
minf(a, b) == IF a < b THEN a ELSE b

\* a + b in f32, b finite.
FAdd(a, b) == IF a >= INFINITY THEN INFINITY ELSE a + b

\* a - b in f32, b finite.
FSub(a, b) == IF a >= INFINITY THEN INFINITY ELSE a - b

\* a * 0.5 in f32 (a is a multiple of 2 in every call).
Half(a) == a \div 2

Vec2_new == [x |-> 0, y |-> 0]

Vec2_make(x, y) == [x |-> x, y |-> y]

\* math::Rect::new
Rect_new(x, y, w, h) == [x |-> x, y |-> y, w |-> w, h |-> h]

\* math::Rect::inflate
Rect_inflate(r, dw, dh) ==
    Rect_new(r.x - dw, r.y - dh, r.w + dw + dw, r.h + dh + dh)

\* math::Rect::contains
Rect_contains(r, pt) ==
    /\ pt.x >= r.x
    /\ pt.x <= r.x + r.w
    /\ pt.y >= r.y
    /\ pt.y <= r.y + r.h

Thickness_zero == [left |-> 0, top |-> 0, right |-> 0, bottom |-> 0]

\* ------------------------------------------------------------------------
\* UINode and the widget kinds
\* ------------------------------------------------------------------------

RoutedEventHandlerType == {"MouseMove", "MouseEnter", "MouseLeave", "MouseDown", "MouseUp"}

\* Option::None of a handler slot, of Button::click.
NoHandler == "None"

\* UINodeKind values that carry no data (Base, Canvas, Grid, ...).
Kind(tag) == [tag |-> tag]

\* FormattedTextBuilder::new().build(): the formatted text of no text.
FormattedText_empty == [text |-> "", size |-> Vec2_new, font |-> NONE]

\* Text::new
Text_new(text) ==
    [ tag |-> "Text",
      need_update |-> TRUE,
      text |-> text,
      font |-> NONE,
      vertical_alignment |-> "Top",
      horizontal_alignment |-> "Left",
      formatted_text |-> FormattedText_empty ]

\* Text::set_text
Text_set_text(text, s) == [text EXCEPT !.text = s, !.need_update = TRUE]

\* Text::set_font
Text_set_font(text, font) == [text EXCEPT !.font = font, !.need_update = TRUE]

\* Button::new
Button_new == [tag |-> "Button", click |-> NoHandler, was_pressed |-> FALSE]

\* Border { stroke_color, stroke_thickness }
Border_make(stroke_color, stroke_thickness) ==
    [tag |-> "Border", stroke_thickness |-> stroke_thickness, stroke_color |-> stroke_color]

\* UINode::new
UINode_new(kind) ==
    [ kind |-> kind,
      desired_local_position |-> Vec2_new,
      width |-> NaN,
      height |-> NaN,
      screen_position |-> Vec2_new,
      desired_size |-> Vec2_new,
      actual_local_position |-> Vec2_new,
      actual_size |-> Vec2_new,
      min_size |-> Vec2_make(0, 0),
      max_size |-> Vec2_make(INFINITY, INFINITY),
      color |-> "white",
      row |-> 0,
      column |-> 0,
      vertical_alignment |-> "Stretch",
      horizontal_alignment |-> "Stretch",
      margin |-> Thickness_zero,
      visibility |-> "Visible",
      children |-> << >>,
      parent |-> NONE,
      command_indices |-> << >>,
      is_mouse_over |-> FALSE,
      event_handlers |-> [t \in RoutedEventHandlerType |-> NoHandler] ]

\* UINode::get_screen_bounds
get_screen_bounds(node) ==
    Rect_new(node.screen_position.x, node.screen_position.y,
             node.actual_size.x, node.actual_size.y)

\* UINode::set_handler
set_handler(node, handler_type, handler) ==
    [node EXCEPT !.event_handlers[handler_type] = handler]

\* UINode::set_desired_local_position
set_desired_local_position(node, pos) == [node EXCEPT !.desired_local_position = pos]

\* UINode::set_width
set_width(node, width) == [node EXCEPT !.width = width]

\* UINode::set_height
set_height(node, height) == [node EXCEPT !.height = height]
\* ------------------------------------------------------------------------
\* State: the fields of UserInterface, and what the last call did
\* ------------------------------------------------------------------------

VARIABLES
    nodes,              \* Pool<UINode>
    drawing_context,    \* DrawingContext
    root_canvas,        \* Handle<UINode>
    picked_node,        \* Handle<UINode>
    prev_picked_node,   \* Handle<UINode>
    captured_node,      \* Handle<UINode>
    fault,              \* a call dereferenced the null node_kind pointer
    call,               \* the last call of the host: name, arguments, result
    scenario,           \* progress of a press / move away / release sequence
    editor              \* Editor

vars == << nodes, drawing_context, root_canvas, picked_node, prev_picked_node,
           captured_node, fault, call, scenario, editor >>

\* The font handle the host gave to UserInterface::new (default_font).
DefaultFont == 1

\* The UserInterface value the methods below take and return (&mut self).
\* routed lists the route_event calls process_event made during the current
\* call, invoked the handlers that ran, measured and arranged the calls of
\* measure and arrange with the size or rectangle they offered, clips the
\* clip pushes and pops of draw_node, drawn the nodes draw_node found with
\* the command indices each one pushed and whether its text was rebuilt.  null_deref is what the read through
\* the null node_kind pointer does in the current call, aborted that it
\* ended the process.
Self ==
    [ nodes |-> nodes,
      drawing_context |-> drawing_context,
      default_font |-> DefaultFont,
      root_canvas |-> root_canvas,
      picked_node |-> picked_node,
      prev_picked_node |-> prev_picked_node,
      captured_node |-> captured_node,
      fault |-> fault,
      null_deref |-> "default",
      aborted |-> FALSE,
      routed |-> << >>,
      invoked |-> << >>,
      measured |-> << >>,
      arranged |-> << >>,
      clips |-> << >>,
      drawn |-> << >> ]

\* DrawingContext::new
DrawingContext_new ==
    [commands |-> << >>, clip_stack |-> << >>, pending |-> << >>, nesting |-> 0]

\* UserInterface::new
UserInterface_new ==
    LET s == spawn(<< >>, UINode_new(Kind("Canvas")))
    IN  [ nodes |-> s.pool,
          drawing_context |-> DrawingContext_new,
          default_font |-> DefaultFont,
          root_canvas |-> s.handle,
          picked_node |-> NONE,
          prev_picked_node |-> NONE,
          captured_node |-> NONE,
          fault |-> FALSE,
          null_deref |-> "default",
          aborted |-> FALSE,
          routed |-> << >>,
          invoked |-> << >>,
          measured |-> << >>,
          arranged |-> << >>,
          clips |-> << >>,
      drawn |-> << >> ]

\* ------------------------------------------------------------------------
\* Widget tree operations
\* ------------------------------------------------------------------------

\* Vec::remove(position(h)): the sequence without its first occurrence of h.
RemoveFirst(seq, h) ==
    IF \E i \in DOMAIN seq : seq[i] = h
    THEN LET i == CHOOSE k \in DOMAIN seq :
                      seq[k] = h /\ \A j \in 1 .. (k - 1) : seq[j] # h
         IN  SubSeq(seq, 1, i - 1) \o SubSeq(seq, i + 1, Len(seq))
    ELSE seq

\* unlink_node without the removal from the former parent's child list.
unlink_node_keeps_entry(ui, node_handle) ==
    IF is_valid_handle(ui.nodes, node_handle)
    THEN [ui EXCEPT !.nodes[node_handle].parent = NONE]
    ELSE ui

\* UserInterface::unlink_node
unlink_node(ui, node_handle) ==
    LET found == is_valid_handle(ui.nodes, node_handle)
        parent_handle == IF found THEN ui.nodes[node_handle].parent ELSE NONE
        ui1 == IF found THEN [ui EXCEPT !.nodes[node_handle].parent = NONE] ELSE ui
    IN  IF is_valid_handle(ui1.nodes, parent_handle)
        THEN [ui1 EXCEPT !.nodes[parent_handle].children =
                              RemoveFirst(@, node_handle)]
        ELSE ui1

\* link_nodes without the leading unlink_node.
link_nodes_no_unlink(ui, child_handle, parent_handle) ==
    IF is_valid_handle(ui.nodes, child_handle)
    THEN LET ui2 == [ui EXCEPT !.nodes[child_handle].parent = parent_handle]
         IN  IF is_valid_handle(ui2.nodes, parent_handle)
             THEN [ui2 EXCEPT !.nodes[parent_handle].children =
                                   Append(@, child_handle)]
             ELSE ui2
    ELSE ui

\* UserInterface::link_nodes
link_nodes(ui, child_handle, parent_handle) ==
    LET ui1 == unlink_node(ui, child_handle)
    IN  IF is_valid_handle(ui1.nodes, child_handle)
        THEN LET ui2 == [ui1 EXCEPT !.nodes[child_handle].parent = parent_handle]
             IN  IF is_valid_handle(ui2.nodes, parent_handle)
                 THEN [ui2 EXCEPT !.nodes[parent_handle].children =
                                       Append(@, child_handle)]
                 ELSE ui2
        ELSE ui1

\* UserInterface::add_node: the new handle and the interface after the call.
add_node(ui, node) ==
    LET s == spawn(ui.nodes, node)
    IN  [ ui |-> link_nodes([ui EXCEPT !.nodes = s.pool], s.handle, ui.root_canvas),
          handle |-> s.handle ]

\* ------------------------------------------------------------------------
\* Mouse capture
\* ------------------------------------------------------------------------

\* capture_mouse without the test that no capture is held.
capture_mouse_steals(ui, node) ==
    IF is_valid_handle(ui.nodes, node)
    THEN [ui |-> [ui EXCEPT !.captured_node = node], result |-> TRUE]
    ELSE [ui |-> ui, result |-> FALSE]

\* UserInterface::capture_mouse
capture_mouse(ui, node) ==
    IF is_none(ui.captured_node) /\ is_valid_handle(ui.nodes, node)
    THEN [ui |-> [ui EXCEPT !.captured_node = node], result |-> TRUE]
    ELSE [ui |-> ui, result |-> FALSE]

\* UserInterface::release_mouse_capture
release_mouse_capture(ui) == [ui EXCEPT !.captured_node = NONE]

\* ------------------------------------------------------------------------
\* Layout: measure, arrange, update_transform
\* ------------------------------------------------------------------------

\* The clamp of measure: min_size wins only when the value is not above
\* max_size.
ClampMinMax(v, lo, hi) == IF v > hi THEN hi ELSE IF v < lo THEN lo ELSE v

\* The per-axis maximum the loops of measure_override keep.
MaxSize(acc, child) ==
    [ x |-> IF child.desired_size.x > acc.x THEN child.desired_size.x ELSE acc.x,
      y |-> IF child.desired_size.y > acc.y THEN child.desired_size.y ELSE acc.y ]

RECURSIVE measure(_, _, _)
RECURSIVE measure_children(_, _, _, _, _)
\* The loop `for child_handle in children.iter()` of measure_override from
\* its i-th turn on: measures each child against size_for_child and keeps
\* the per-axis maximum of the desired sizes in acc.
measure_children(ui, children, i, size_for_child, acc) ==
    IF i > Len(children)
    THEN [ui |-> ui, size |-> acc]
    ELSE LET ui1 == measure(ui, children[i], size_for_child)
             acc1 == IF is_valid_handle(ui1.nodes, children[i])
                     THEN MaxSize(acc, ui1.nodes[children[i]])
                     ELSE acc
         IN  measure_children(ui1, children, i + 1, size_for_child, acc1)

\* UserInterface::measure_override: the interface after the children were
\* measured, and the desired size.
measure_override(ui, node_kind, children, available_size) ==
    IF node_kind.tag = "Border"
    THEN LET margin_x == node_kind.stroke_thickness.left + node_kind.stroke_thickness.right
             margin_y == node_kind.stroke_thickness.top + node_kind.stroke_thickness.bottom
             size_for_child == Vec2_make(FSub(available_size.x, margin_x),
                                         FSub(available_size.y, margin_y))
             r == measure_children(ui, children, 1, size_for_child, Vec2_new)
         IN  [ui |-> r.ui, size |-> Vec2_make(r.size.x + margin_x, r.size.y + margin_y)]
    ELSE IF node_kind.tag = "Canvas"
    THEN LET size_for_child == Vec2_make(INFINITY, INFINITY)
             r == measure_children(ui, children, 1, size_for_child, Vec2_new)
         IN  [ui |-> r.ui, size |-> Vec2_new]
    ELSE measure_children(ui, children, 1, available_size, Vec2_new)

\* The second half of measure without its last step (`Make sure that node
\* won't go outside of available bounds`).
measure_desired_size_unclamped(n, desired_size, margin, available_size) ==
    LET x1 == IF ~is_nan(n.width) THEN n.width ELSE desired_size.x
        x2 == ClampMinMax(x1, n.min_size.x, n.max_size.x)
        y1 == ClampMinMax(desired_size.y, n.min_size.y, n.max_size.y)
        y2 == IF ~is_nan(n.height) THEN n.height ELSE y1
    IN  Vec2_make(FAdd(x2, margin.x), FAdd(y2, margin.y))

\* The second half of measure: the desired size node n gets from the size
\* measure_override returned.
measure_desired_size(n, desired_size, margin, available_size) ==
    LET x1 == IF ~is_nan(n.width) THEN n.width ELSE desired_size.x
        x2 == ClampMinMax(x1, n.min_size.x, n.max_size.x)
        y1 == ClampMinMax(desired_size.y, n.min_size.y, n.max_size.y)
        y2 == IF ~is_nan(n.height) THEN n.height ELSE y1
        x3 == FAdd(x2, margin.x)
        y3 == FAdd(y2, margin.y)
    IN  Vec2_make(IF x3 > available_size.x THEN available_size.x ELSE x3,
                  IF y3 > available_size.y THEN available_size.y ELSE y3)

\* What the read of the discriminant through the null node_kind pointer can
\* do: end the process (the access to address 0 is not mapped), or give a
\* value that takes measure_override into its default arm.
NullOutcomes == {"abort", "default"}

\* UserInterface::measure.  For a node that is not Visible the code leaves
\* node_kind a null pointer and dereferences it in the call of
\* measure_override: fault records it, and the pass ends there or goes on
\* in the default arm over no children, as null_deref says.  The call is
\* entered in the list measured.
measure(ui, node_handle, available_size) ==
    IF ~is_valid_handle(ui.nodes, node_handle) \/ ui.aborted
    THEN ui
    ELSE LET node == ui.nodes[node_handle]
             margin == Vec2_make(node.margin.left + node.margin.right,
                                 node.margin.top + node.margin.bottom)
             w == IF node.width > 0 THEN node.width
                  ELSE maxf(0, FSub(available_size.x, margin.x))
             h == IF node.height > 0 THEN node.height
                  ELSE maxf(0, FSub(available_size.y, margin.y))
             size_for_child ==
                 Vec2_make(ClampMinMax(w, node.min_size.x, node.max_size.x),
                           ClampMinMax(h, node.min_size.y, node.max_size.y))
             visible == node.visibility = "Visible"
             children == IF visible THEN node.children ELSE << >>
             node_kind == IF visible THEN node.kind ELSE Kind("Base")
             ui0 == [ui EXCEPT !.measured = Append(@, [node |-> node_handle,
                                                       available |-> available_size])]
             ui1 == IF visible
                    THEN ui0
                    ELSE [ui0 EXCEPT !.nodes[node_handle].desired_size = Vec2_make(0, 0),
                                     !.fault = TRUE,
                                     !.aborted = (ui.null_deref = "abort")]
             r == IF ui1.aborted
                  THEN [ui |-> ui1, size |-> Vec2_new]
                  ELSE measure_override(ui1, node_kind, children, size_for_child)
         IN  IF ~is_valid_handle(r.ui.nodes, node_handle) \/ r.ui.aborted
             THEN r.ui
             ELSE [r.ui EXCEPT !.nodes[node_handle].desired_size =
                      measure_desired_size(r.ui.nodes[node_handle], r.size, margin,
                                           available_size)]

RECURSIVE arrange(_, _, _)
RECURSIVE arrange_children(_, _, _, _)
\* The loops of the Border and default arms of arrange_override from their
\* i-th turn on: every child is arranged in the same rectangle.
arrange_children(ui, children, i, rect) ==
    IF i > Len(children)
    THEN ui
    ELSE arrange_children(arrange(ui, children[i], rect), children, i + 1, rect)

RECURSIVE arrange_canvas_children(_, _, _)
\* The loop of the Canvas arm of arrange_override from its i-th turn on:
\* a child that resolves is arranged at its desired position and size.
arrange_canvas_children(ui, children, i) ==
    IF i > Len(children)
    THEN ui
    ELSE LET ui1 ==
                 IF is_valid_handle(ui.nodes, children[i])
                 THEN LET child == ui.nodes[children[i]]
                      IN  arrange(ui, children[i],
                                  Rect_new(child.desired_local_position.x,
                                           child.desired_local_position.y,
                                           child.desired_size.x,
                                           child.desired_size.y))
                 ELSE ui
         IN  arrange_canvas_children(ui1, children, i + 1)

\* UserInterface::arrange_override: the interface after the children were
\* arranged, and the actual size.
arrange_override(ui, node_kind, children, final_size) ==
    IF node_kind.tag = "Border"
    THEN LET t == node_kind.stroke_thickness
             rect_for_child == Rect_new(t.left, t.top,
                                        final_size.x - (t.right + t.left),
                                        final_size.y - (t.bottom + t.top))
         IN  [ui |-> arrange_children(ui, children, 1, rect_for_child), size |-> final_size]
    ELSE IF node_kind.tag = "Canvas"
    THEN [ui |-> arrange_canvas_children(ui, children, 1), size |-> final_size]
    ELSE [ui |-> arrange_children(ui, children, 1,
                                  Rect_new(0, 0, final_size.x, final_size.y)),
          size |-> final_size]

\* UserInterface::arrange past its visibility test, for a node that
\* resolves.  The call is entered in the list arranged.
arrange_visible(ui, node_handle, final_rect) ==
         LET node == ui.nodes[node_handle]
             margin_x == node.margin.left + node.margin.right
             margin_y == node.margin.top + node.margin.bottom
             origin_x == final_rect.x + node.margin.left
             origin_y == final_rect.y + node.margin.top
             size_without_margin == Vec2_make(maxf(0, final_rect.w - margin_x),
                                              maxf(0, final_rect.h - margin_y))
             sx1 == IF node.horizontal_alignment # "Stretch"
                    THEN minf(size_without_margin.x, node.desired_size.x - margin_x)
                    ELSE size_without_margin.x
             sy1 == IF node.vertical_alignment # "Stretch"
                    THEN minf(size_without_margin.y, node.desired_size.y - margin_y)
                    ELSE size_without_margin.y
             size == Vec2_make(IF node.width > 0 THEN node.width ELSE sx1,
                               IF node.height > 0 THEN node.height ELSE sy1)
             r == arrange_override(
                      [ui EXCEPT !.arranged = Append(@, [node |-> node_handle,
                                                         final_rect |-> final_rect])],
                      node.kind, node.children, size)
         IN  IF ~is_valid_handle(r.ui.nodes, node_handle)
             THEN r.ui
             ELSE LET n == r.ui.nodes[node_handle]
                      fx == IF r.size.x > final_rect.w THEN final_rect.w ELSE r.size.x
                      fy == IF r.size.y > final_rect.h THEN final_rect.h ELSE r.size.y
                      ox == IF n.horizontal_alignment \in {"Center", "Stretch"}
                            THEN origin_x + Half(size_without_margin.x - fx)
                            ELSE IF n.horizontal_alignment = "Right"
                            THEN origin_x + (size_without_margin.x - fx)
                            ELSE origin_x
                      oy == IF n.vertical_alignment \in {"Center", "Stretch"}
                            THEN origin_y + Half(size_without_margin.y - fy)
                            ELSE IF n.vertical_alignment = "Bottom"
                            THEN origin_y + (size_without_margin.y - fy)
                            ELSE origin_y
                  IN  [r.ui EXCEPT !.nodes[node_handle].actual_size = Vec2_make(fx, fy),
                                   !.nodes[node_handle].actual_local_position =
                                       Vec2_make(ox, oy)]

\* arrange without `if node.visibility != Visibility::Visible { return; }`.
arrange_ignores_visibility(ui, node_handle, final_rect) ==
    IF ~is_valid_handle(ui.nodes, node_handle)
    THEN ui
    ELSE arrange_visible(ui, node_handle, final_rect)

\* UserInterface::arrange
arrange(ui, node_handle, final_rect) ==
    IF ~is_valid_handle(ui.nodes, node_handle)
    THEN ui
    ELSE IF ui.nodes[node_handle].visibility # "Visible"
    THEN ui
    ELSE arrange_visible(ui, node_handle, final_rect)

RECURSIVE update_transform(_, _)
RECURSIVE update_transform_children(_, _, _)
\* The loop `Continue on children` of update_transform from its i-th turn on.
update_transform_children(ui, children, i) ==
    IF i > Len(children)
    THEN ui
    ELSE update_transform_children(update_transform(ui, children[i]), children, i + 1)

\* update_transform that adds the new screen position to the one the node
\* had.
update_transform_accumulates(ui, node_handle) ==
    IF ~is_valid_handle(ui.nodes, node_handle)
    THEN ui
    ELSE LET node == ui.nodes[node_handle]
             screen_position ==
                 IF is_valid_handle(ui.nodes, node.parent)
                 THEN Vec2_make(
                          node.actual_local_position.x + ui.nodes[node.parent].screen_position.x,
                          node.actual_local_position.y + ui.nodes[node.parent].screen_position.y)
                 ELSE node.actual_local_position
             ui1 == [ui EXCEPT !.nodes[node_handle].screen_position =
                         Vec2_make(@.x + screen_position.x, @.y + screen_position.y)]
         IN  update_transform_children(ui1, node.children, 1)

\* UserInterface::update_transform
update_transform(ui, node_handle) ==
    IF ~is_valid_handle(ui.nodes, node_handle)
    THEN ui
    ELSE LET node == ui.nodes[node_handle]
             screen_position ==
                 IF is_valid_handle(ui.nodes, node.parent)
                 THEN Vec2_make(
                          node.actual_local_position.x + ui.nodes[node.parent].screen_position.x,
                          node.actual_local_position.y + ui.nodes[node.parent].screen_position.y)
                 ELSE node.actual_local_position
             ui1 == [ui EXCEPT !.nodes[node_handle].screen_position = screen_position]
         IN  update_transform_children(ui1, node.children, 1)

\* UserInterface::update after its measure call returned ui: nothing when
\* the process ended in it.
update_arrange(ui, screen_size) ==
    IF ui.aborted
    THEN ui
    ELSE update_transform(
             arrange(ui, ui.root_canvas, Rect_new(0, 0, screen_size.x, screen_size.y)),
             ui.root_canvas)

\* UserInterface::update
update(ui, screen_size) ==
    update_arrange(measure(ui, ui.root_canvas, screen_size), screen_size)
\* ------------------------------------------------------------------------
\* DrawingContext (gui::draw): the buffer of drawing commands
\* ------------------------------------------------------------------------

\* DrawingContext::clear
dc_clear(dc) == [dc EXCEPT !.commands = << >>, !.clip_stack = << >>, !.pending = << >>]

\* DrawingContext::set_nesting
dc_set_nesting(dc, nesting) == [dc EXCEPT !.nesting = nesting]

\* DrawingContext::commit: the pending geometry becomes one command; its
\* index in the buffer (counted from 0) is returned, or no index when there
\* is no pending geometry.
dc_commit(dc, kind) ==
    IF dc.pending = << >>
    THEN [dc |-> dc, some |-> FALSE, index |-> 0]
    ELSE [ dc |-> [dc EXCEPT !.commands =
                                 Append(@, [kind |-> kind, rects |-> dc.pending,
                                            nesting |-> dc.nesting]),
                             !.pending = << >>],
           some |-> TRUE,
           index |-> Len(dc.commands) ]

\* DrawingContext::push_rect_filled
dc_push_rect_filled(dc, rect) == [dc EXCEPT !.pending = Append(@, rect)]

\* DrawingContext::push_rect_vary: the four sides of the stroke.
dc_push_rect_vary(dc, rect, thickness) ==
    [dc EXCEPT !.pending = @ \o
        << Rect_new(rect.x, rect.y, thickness.left, rect.h),
           Rect_new(rect.x, rect.y, rect.w, thickness.top),
           Rect_new(rect.x + rect.w - thickness.right, rect.y, thickness.right, rect.h),
           Rect_new(rect.x, rect.y + rect.h - thickness.bottom, rect.w, thickness.bottom) >>]

\* DrawingContext::commit_clip_rect: records the clip command and pushes it
\* on the clip stack.
dc_commit_clip_rect(dc, rect) ==
    LET r == dc_commit(dc_push_rect_filled(dc, rect), "Clip")
    IN  [dc |-> [r.dc EXCEPT !.clip_stack = Append(@, r.index)], index |-> r.index]

\* DrawingContext::revert_clip_geom: pops the clip stack.
dc_revert_clip_geom(dc) ==
    IF dc.clip_stack = << >>
    THEN dc
    ELSE [dc EXCEPT !.clip_stack = SubSeq(@, 1, Len(@) - 1)]

\* DrawingContext::draw_text: one Text command at the position, or no command
\* (and no index) for an empty text.
dc_draw_text(dc, position, formatted_text) ==
    IF formatted_text.text = ""
    THEN [dc |-> dc, some |-> FALSE, index |-> 0]
    ELSE [ dc |-> [dc EXCEPT !.commands =
                       Append(@, [kind |-> "Text",
                                  rects |-> << Rect_new(position.x, position.y,
                                                        formatted_text.size.x,
                                                        formatted_text.size.y) >>,
                                  nesting |-> dc.nesting])],
           some |-> TRUE,
           index |-> Len(dc.commands) ]

\* DrawingContext::get_commands().get(index).is_some()
dc_has_command(dc, index) == index + 1 \in DOMAIN dc.commands

\* DrawingContext::get_commands().get(index).unwrap()
dc_command(dc, index) == dc.commands[index + 1]

\* DrawingContext::is_command_contains_point
is_command_contains_point(dc, command, pt) ==
    \E i \in DOMAIN command.rects : Rect_contains(command.rects[i], pt)

\* ------------------------------------------------------------------------
\* Drawing pass
\* ------------------------------------------------------------------------

\* The clip inflation of draw_node, 0.9 px.
ClipInflate == 9

\* FormattedTextBuilder::reuse(..).with_size(..).with_font(..).with_text(..)...build()
FormattedText_build(node, text) ==
    [text |-> text.text, size |-> node.actual_size, font |-> text.font]

\* The writes of draw_node to the node it found: the drawing context after
\* its commands, its kind, and the indices pushed on command_indices.  The
\* node is entered in the list drawn.
draw_node_writes(ui, node_handle, dc, kind, indices, rebuilt) ==
    [ui EXCEPT !.drawing_context = dc,
               !.nodes[node_handle].kind = kind,
               !.nodes[node_handle].command_indices = @ \o indices,
               !.drawn = Append(@, [node |-> node_handle, indices |-> indices,
                                    rebuilt |-> rebuilt])]

\* The body of `if let Some(node) = self.nodes.borrow_mut(node_handle)` in
\* draw_node: the clip command and the commands of the node's kind.
draw_node_self(ui, node_handle, font_cache, nesting) ==
    LET node == ui.nodes[node_handle]
        bounds == get_screen_bounds(node)
        c == dc_commit_clip_rect(dc_set_nesting(ui.drawing_context, nesting),
                                 Rect_inflate(bounds, ClipInflate, ClipInflate))
    IN  IF node.kind.tag = "Border"
        THEN LET g == dc_commit(
                          dc_push_rect_vary(dc_push_rect_filled(c.dc, bounds), bounds,
                                            node.kind.stroke_thickness),
                          "Geometry")
             IN  draw_node_writes(ui, node_handle, g.dc, node.kind,
                                  << c.index, g.index >>, FALSE)
        ELSE IF node.kind.tag = "Text"
        THEN LET text == node.kind
                 rebuilt == text.need_update /\ font_resolves(font_cache, text.font)
                 formatted_text == IF rebuilt
                                   THEN FormattedText_build(node, text)
                                   ELSE text.formatted_text
                 \* `text.need_update = true; // TODO`: the flag stays set.
                 need_update == text.need_update
                 t == dc_draw_text(c.dc, node.screen_position, formatted_text)
             IN  draw_node_writes(ui, node_handle, t.dc,
                                  [text EXCEPT !.formatted_text = formatted_text,
                                               !.need_update = need_update],
                                  IF t.some THEN << c.index, t.index >> ELSE << c.index >>,
                                  rebuilt)
        ELSE draw_node_writes(ui, node_handle, c.dc, node.kind, << c.index >>, FALSE)

RECURSIVE draw_node(_, _, _, _)
RECURSIVE draw_children(_, _, _, _, _)
\* The loop `Continue on children` of draw_node from its i-th turn on.
draw_children(ui, children, i, font_cache, nesting) ==
    IF i > Len(children)
    THEN ui
    ELSE draw_children(draw_node(ui, children[i], font_cache, nesting),
                       children, i + 1, font_cache, nesting)

\* UserInterface::draw_node.  The clip push (commit_clip_rect) and the clip
\* pop (revert_clip_geom) are entered in the list clips.
draw_node(ui, node_handle, font_cache, nesting) ==
    LET found == is_valid_handle(ui.nodes, node_handle)
        ui1 == IF found
               THEN draw_node_self(
                        [ui EXCEPT !.clips = Append(@, [op |-> "push", node |-> node_handle])],
                        node_handle, font_cache, nesting)
               ELSE ui
        children == IF found THEN ui1.nodes[node_handle].children ELSE << >>
        ui2 == draw_children(ui1, children, 1, font_cache, nesting + 1)
    IN  [ui2 EXCEPT !.drawing_context = dc_revert_clip_geom(@),
                    !.clips = Append(@, [op |-> "pop", node |-> node_handle])]

\* UserInterface::draw (visual_debug is false and has no setter).
draw(ui, font_cache) ==
    draw_node([ui EXCEPT !.drawing_context = dc_clear(@)], ui.root_canvas, font_cache, 1)

\* ------------------------------------------------------------------------
\* Hit testing
\* ------------------------------------------------------------------------

\* The loop over command_indices of is_node_clipped: some Clip command of
\* the node that is still in the buffer contains the point.
some_clip_contains(ui, node, pt) ==
    \E i \in DOMAIN node.command_indices :
        /\ dc_has_command(ui.drawing_context, node.command_indices[i])
        /\ dc_command(ui.drawing_context, node.command_indices[i]).kind = "Clip"
        /\ is_command_contains_point(ui.drawing_context,
               dc_command(ui.drawing_context, node.command_indices[i]), pt)

\* is_node_clipped that looks at the node's own clip commands only.
is_node_clipped_own_clip_only(ui, node_handle, pt) ==
    IF ~is_valid_handle(ui.nodes, node_handle)
    THEN TRUE
    ELSE IF ui.nodes[node_handle].visibility # "Visible"
    THEN TRUE
    ELSE ~some_clip_contains(ui, ui.nodes[node_handle], pt)

RECURSIVE is_node_clipped(_, _, _)
\* is_node_clipped without `if node.visibility != Visibility::Visible`.
is_node_clipped_ignores_visibility(ui, node_handle, pt) ==
    IF ~is_valid_handle(ui.nodes, node_handle)
    THEN TRUE
    ELSE LET node == ui.nodes[node_handle]
             clipped == ~some_clip_contains(ui, node, pt)
         IN  IF ~is_none(node.parent) /\ ~clipped
             THEN is_node_clipped(ui, node.parent, pt)
             ELSE clipped

\* UserInterface::is_node_clipped
is_node_clipped(ui, node_handle, pt) ==
    IF ~is_valid_handle(ui.nodes, node_handle)
    THEN TRUE
    ELSE LET node == ui.nodes[node_handle]
         IN  IF node.visibility # "Visible"
             THEN TRUE
             ELSE LET clipped == ~some_clip_contains(ui, node, pt)
                  IN  IF ~is_none(node.parent) /\ ~clipped
                      THEN is_node_clipped(ui, node.parent, pt)
                      ELSE clipped

\* UserInterface::is_node_contains_point
is_node_contains_point(ui, node_handle, pt) ==
    IF ~is_valid_handle(ui.nodes, node_handle)
    THEN FALSE
    ELSE LET node == ui.nodes[node_handle]
         IN  /\ node.visibility = "Visible"
             /\ ~is_node_clipped(ui, node_handle, pt)
             /\ \E i \in DOMAIN node.command_indices :
                    /\ dc_has_command(ui.drawing_context, node.command_indices[i])
                    /\ dc_command(ui.drawing_context, node.command_indices[i]).kind
                           = "Geometry"
                    /\ is_command_contains_point(ui.drawing_context,
                           dc_command(ui.drawing_context, node.command_indices[i]), pt)

RECURSIVE pick_node(_, _, _, _)
RECURSIVE pick_children(_, _, _, _, _)
\* The loop over node.children of pick_node from its i-th turn on; st holds
\* picked, topmost_picked_level and the shared level counter.
pick_children(ui, children, i, pt, st) ==
    IF i > Len(children)
    THEN st
    ELSE LET r == pick_node(ui, children[i], pt, st.level + 1)
             st1 == IF ~is_none(r.picked) /\ r.level > st.topmost_picked_level
                    THEN [picked |-> r.picked, topmost_picked_level |-> r.level,
                          level |-> r.level]
                    ELSE [st EXCEPT !.level = r.level]
         IN  pick_children(ui, children, i + 1, pt, st1)

\* UserInterface::pick_node: the picked handle and the level counter after
\* the call (level is a &mut i32 shared by the whole search).
pick_node(ui, node_handle, pt, level) ==
    LET contains == is_node_contains_point(ui, node_handle, pt)
        st0 == [ picked |-> IF contains THEN node_handle ELSE NONE,
                 topmost_picked_level |-> IF contains THEN level ELSE 0,
                 level |-> level ]
        st == IF is_valid_handle(ui.nodes, node_handle)
              THEN pick_children(ui, ui.nodes[node_handle].children, 1, pt, st0)
              ELSE st0
    IN  [picked |-> st.picked, level |-> st.level]

\* hit_test that always starts the search at the root canvas.
hit_test_from_root(ui, pt) == pick_node(ui, ui.root_canvas, pt, 0).picked

\* UserInterface::hit_test
hit_test(ui, pt) ==
    LET node == IF is_valid_handle(ui.nodes, ui.captured_node)
                THEN ui.captured_node
                ELSE ui.root_canvas
    IN  pick_node(ui, node, pt, 0).picked

\* ------------------------------------------------------------------------
\* Event routing and the handlers of create_button
\* ------------------------------------------------------------------------

\* RoutedEvent::new
RoutedEvent_new(kind) == [kind |-> kind, handled |-> FALSE]

\* The colours of create_button: Color::opaque(r, g, b).
normal_color == <<120, 120, 120>>

pressed_color == <<100, 100, 100>>

hover_color == <<160, 160, 160>>

\* The closure the host gives to Button::set_on_click.
OnClick == "on_click"

\* One more entry of the list of the handlers that ran: the handler, the
\* node it ran on, and for the MouseUp handler of a button the value
\* was_pressed had when it began.
Invoked(ui, handler, handle, was_pressed) ==
    [ui EXCEPT !.invoked = Append(@, [handler |-> handler, node |-> handle,
                                      was_pressed |-> was_pressed])]

IsButton(ui, handle) ==
    is_valid_handle(ui.nodes, handle) /\ ui.nodes[handle].kind.tag = "Button"

\* The MouseDown handler of the button node.
button_mouse_down(ui, handle, evt) ==
    LET ui1 == capture_mouse(Invoked(ui, "button_mouse_down", handle, FALSE), handle).ui
    IN  [ ui |-> IF IsButton(ui1, handle)
                 THEN [ui1 EXCEPT !.nodes[handle].kind.was_pressed = TRUE]
                 ELSE ui1,
          evt |-> evt ]

\* The MouseUp handler of the button node.
button_mouse_up(ui, handle, evt) ==
    LET is_button == IsButton(ui, handle)
        was == is_button /\ ui.nodes[handle].kind.was_pressed
        \* click_handler = button.click.take(); button.was_pressed = false
        click_handler == IF is_button THEN ui.nodes[handle].kind.click ELSE NoHandler
        ui0 == Invoked(ui, "button_mouse_up", handle, was)
        ui1 == IF is_button
               THEN [ui0 EXCEPT !.nodes[handle].kind.click = NoHandler,
                                !.nodes[handle].kind.was_pressed = FALSE]
               ELSE ui0
        \* handler(ui, handle.clone()); evt.handled = true
        fired == click_handler # NoHandler
        ui2 == IF fired THEN Invoked(ui1, click_handler, handle, FALSE) ELSE ui1
        \* button.click = click_handler
        ui3 == IF IsButton(ui2, handle)
               THEN [ui2 EXCEPT !.nodes[handle].kind.click = click_handler]
               ELSE ui2
    IN  [ ui |-> release_mouse_capture(ui3),
          evt |-> IF fired THEN [evt EXCEPT !.handled = TRUE] ELSE evt ]

\* A handler of the border child that leaves the colour as it is.
back_keeps_color(ui, name, handle, evt, color) ==
    [ui |-> Invoked(ui, name, handle, FALSE), evt |-> evt]

\* The MouseEnter, MouseLeave and MouseDown handlers of the border child:
\* the node takes the colour.
back_set_color(ui, name, handle, evt, color) ==
    LET ui0 == Invoked(ui, name, handle, FALSE)
    IN  [ ui |-> IF is_valid_handle(ui0.nodes, handle)
                 THEN [ui0 EXCEPT !.nodes[handle].color = color]
                 ELSE ui0,
          evt |-> evt ]

\* The MouseUp handler of the border child.
back_mouse_up(ui, handle, evt) ==
    LET ui0 == Invoked(ui, "back_mouse_up", handle, FALSE)
    IN  [ ui |-> IF is_valid_handle(ui0.nodes, handle)
                 THEN [ui0 EXCEPT !.nodes[handle].color =
                           IF ui0.nodes[handle].is_mouse_over
                           THEN hover_color ELSE normal_color]
                 ELSE ui0,
          evt |-> evt ]

\* The closures the host gives to UINode::set_handler: one that returns at
\* once, one that sets evt.handled, one that calls ui.unlink_node(&handle).
HostHandlers == {"host_pass", "host_handled", "host_unlink"}

\* A closure given to UINode::set_handler that frees the node it runs on
\* (ui.nodes.free(handle), code of the gui module).
FreeingHandler == "host_free"

\* A closure given to UINode::set_handler that reads the slot of its node
\* for the kind of the event and then installs another closure in it
\* (ui.get_node_mut(&handle) ... node.set_handler(type, ..)).
InstallingHandler == "host_install"

\* The InstallingHandler closure: the slot as it found it is entered in the
\* list of the handlers that ran.
host_install(ui, handle, evt) ==
    IF is_valid_handle(ui.nodes, handle)
    THEN [ui EXCEPT !.invoked = Append(@, [handler |-> InstallingHandler, node |-> handle,
                                           was_pressed |-> FALSE,
                                           slot |-> ui.nodes[handle].event_handlers[evt.kind]]),
                    !.nodes[handle] = set_handler(@, evt.kind, "host_pass")]
    ELSE Invoked(ui, InstallingHandler, handle, FALSE)

\* The call `handler(self, node_handle.clone(), event_args)` of route_event.
invoke(handler, ui, handle, evt) ==
    CASE handler = "button_mouse_down" -> button_mouse_down(ui, handle, evt)
      [] handler = "button_mouse_up" -> button_mouse_up(ui, handle, evt)
      [] handler = "back_mouse_enter" -> back_set_color(ui, handler, handle, evt, hover_color)
      [] handler = "back_mouse_leave" -> back_set_color(ui, handler, handle, evt, normal_color)
      [] handler = "back_mouse_down" -> back_set_color(ui, handler, handle, evt, pressed_color)
      [] handler = "back_mouse_up" -> back_mouse_up(ui, handle, evt)
      [] handler = "host_pass" -> [ui |-> Invoked(ui, handler, handle, FALSE), evt |-> evt]
      [] handler = "host_handled" -> [ui |-> Invoked(ui, handler, handle, FALSE),
                                      evt |-> [evt EXCEPT !.handled = TRUE]]
      [] handler = "host_unlink" -> [ui |-> unlink_node(Invoked(ui, handler, handle, FALSE),
                                                        handle),
                                     evt |-> evt]
      [] handler = "host_install" -> [ui |-> host_install(ui, handle, evt), evt |-> evt]
      [] handler = "host_free" -> [ui |-> [Invoked(ui, handler, handle, FALSE)
                                             EXCEPT !.nodes = free(@, handle)],
                                   evt |-> evt]
      [] OTHER -> [ui |-> ui, evt |-> evt]

\* route_event that puts the handler back only into a slot that is still
\* empty after the handler ran.
route_event_handler_keeps_installed(ui, node_handle, event_type, event_args) ==
    LET found == is_valid_handle(ui.nodes, node_handle)
        handler == IF found THEN ui.nodes[node_handle].event_handlers[event_type]
                   ELSE NoHandler
        parent == IF found THEN ui.nodes[node_handle].parent ELSE NONE
        ui1 == IF found
               THEN [ui EXCEPT !.nodes[node_handle].event_handlers[event_type] = NoHandler]
               ELSE ui
        r == IF handler # NoHandler
             THEN invoke(handler, ui1, node_handle, event_args)
             ELSE [ui |-> ui1, evt |-> event_args]
        ui2 == IF /\ is_valid_handle(r.ui.nodes, node_handle)
                  /\ r.ui.nodes[node_handle].event_handlers[event_type] = NoHandler
               THEN [r.ui EXCEPT !.nodes[node_handle].event_handlers[event_type] = handler]
               ELSE r.ui
    IN  [ui |-> ui2, evt |-> r.evt, parent |-> parent]

\* route_event from `Take event handler` to `Put event handler back`: the
\* interface and the event after the handler of node_handle ran, and the
\* parent read before it ran.
route_event_handler(ui, node_handle, event_type, event_args) ==
    LET found == is_valid_handle(ui.nodes, node_handle)
        \* Take event handler.
        handler == IF found THEN ui.nodes[node_handle].event_handlers[event_type]
                   ELSE NoHandler
        parent == IF found THEN ui.nodes[node_handle].parent ELSE NONE
        ui1 == IF found
               THEN [ui EXCEPT !.nodes[node_handle].event_handlers[event_type] = NoHandler]
               ELSE ui
        \* Execute event handler.
        r == IF handler # NoHandler
             THEN invoke(handler, ui1, node_handle, event_args)
             ELSE [ui |-> ui1, evt |-> event_args]
        \* Put event handler back.
        ui2 == IF is_valid_handle(r.ui.nodes, node_handle)
               THEN [r.ui EXCEPT !.nodes[node_handle].event_handlers[event_type] = handler]
               ELSE r.ui
    IN  [ui |-> ui2, evt |-> r.evt, parent |-> parent]

\* route_event_step that routes the event on whether it was handled or not.
route_event_step_ignores_handled(ui, node_handle, event_type, event_args) ==
    LET s == route_event_handler(ui, node_handle, event_type, event_args)
    IN  [ui |-> s.ui, evt |-> s.evt, parent |-> s.parent, again |-> ~is_none(s.parent)]

\* The body of route_event up to its recursive call: what route_event_handler
\* gives, and whether the event is routed on to the parent (`Route event up
\* on hierarchy (bubbling strategy) until is not handled`).
route_event_step(ui, node_handle, event_type, event_args) ==
    LET s == route_event_handler(ui, node_handle, event_type, event_args)
    IN  [ ui |-> s.ui, evt |-> s.evt, parent |-> s.parent,
          again |-> ~s.evt.handled /\ ~is_none(s.parent) ]

RECURSIVE route_event_from(_, _)
\* The recursive call of route_event after the step s.
route_event_from(s, event_type) ==
    IF s.again
    THEN route_event_from(route_event_step(s.ui, s.parent, event_type, s.evt), event_type)
    ELSE [ui |-> s.ui, evt |-> s.evt]

\* UserInterface::route_event: the interface and the event after the call.
route_event(ui, node_handle, event_type, event_args) ==
    route_event_from(route_event_step(ui, node_handle, event_type, event_args),
                     event_type)

\* A route_event call made by process_event, entered in the list routed.
route_from(ui, node_handle, event_type) ==
    route_event([ui EXCEPT !.routed = Append(@, [type |-> event_type,
                                                 target |-> node_handle])],
                node_handle, event_type, RoutedEvent_new(event_type)).ui

\* `Fire mouse leave for previously picked node` without
\* `prev_picked_node.is_mouse_over = false`.
fire_mouse_leave_keeps_flag(ui) ==
    LET prev == ui.prev_picked_node
    IN  IF /\ ui.picked_node # prev
           /\ is_valid_handle(ui.nodes, prev)
           /\ ui.nodes[prev].is_mouse_over
        THEN route_from(ui, prev, "MouseLeave")
        ELSE ui

\* process_event, CursorMoved: `Fire mouse leave for previously picked node`.
fire_mouse_leave(ui) ==
    LET prev == ui.prev_picked_node
    IN  IF /\ ui.picked_node # prev
           /\ is_valid_handle(ui.nodes, prev)
           /\ ui.nodes[prev].is_mouse_over
        THEN route_from([ui EXCEPT !.nodes[prev].is_mouse_over = FALSE],
                        prev, "MouseLeave")
        ELSE ui

\* process_event, CursorMoved: the MouseEnter of the picked node when the
\* cursor was not over it.
fire_mouse_enter(ui) ==
    LET picked == ui.picked_node
    IN  IF is_valid_handle(ui.nodes, picked) /\ ~ui.nodes[picked].is_mouse_over
        THEN route_from([ui EXCEPT !.nodes[picked].is_mouse_over = TRUE],
                        picked, "MouseEnter")
        ELSE ui

\* process_event, CursorMoved: `Fire mouse move`.
fire_mouse_move(ui) == route_from(ui, ui.picked_node, "MouseMove")

\* process_event, CursorMoved: the block `if !self.picked_node.is_none()`.
fire_mouse_enter_and_move(ui) ==
    IF is_none(ui.picked_node) THEN ui ELSE fire_mouse_move(fire_mouse_enter(ui))

\* The arm WindowEvent::CursorMoved with the MouseEnter and MouseMove block
\* put before the MouseLeave block.
process_cursor_moved_enter_first(ui, pos) ==
    fire_mouse_leave(
        fire_mouse_enter_and_move([ui EXCEPT !.picked_node = hit_test(ui, pos)]))

\* The arm WindowEvent::CursorMoved of process_event.
process_cursor_moved(ui, pos) ==
    fire_mouse_enter_and_move(
        fire_mouse_leave([ui EXCEPT !.picked_node = hit_test(ui, pos)]))

\* The arm WindowEvent::MouseInput of process_event, entered when the picked
\* node is not null.
process_mouse_input(ui, event) ==
    IF ~is_none(ui.picked_node) /\ event.type = "MouseInput"
    THEN IF event.state = "Pressed"
         THEN route_from(ui, ui.picked_node, "MouseDown")
         ELSE route_from(ui, ui.picked_node, "MouseUp")
    ELSE ui

\* `self.prev_picked_node = self.picked_node.clone()` of process_event.
set_prev_picked_node(ui) == [ui EXCEPT !.prev_picked_node = ui.picked_node]

\* UserInterface::process_event (it returns false for every event).
process_event(ui, event) ==
    set_prev_picked_node(
        process_mouse_input(IF event.type = "CursorMoved"
                            THEN process_cursor_moved(ui, event.position)
                            ELSE ui,
                            event))

\* ------------------------------------------------------------------------
\* create_button
\* ------------------------------------------------------------------------

\* button_node.set_width(200.0)
ButtonWidth == 2000

\* button_node.set_height(50.0)
ButtonHeight == 500

\* The stroke of the border child: 2.0 on every side.
ButtonStroke == 20

\* UserInterface::create_button: the handle of the button and the interface
\* after the call.
create_button(ui, text) ==
    LET button_node ==
            set_handler(
                set_handler([UINode_new(Button_new) EXCEPT !.width = ButtonWidth,
                                                           !.height = ButtonHeight],
                            "MouseDown", "button_mouse_down"),
                "MouseUp", "button_mouse_up")
        b == add_node(ui, button_node)
        border == Border_make(<<200, 200, 200>>,
                              [left |-> ButtonStroke, right |-> ButtonStroke,
                               top |-> ButtonStroke, bottom |-> ButtonStroke])
        text_kind == [Text_new(text) EXCEPT !.font = ui.default_font,
                                            !.need_update = TRUE,
                                            !.horizontal_alignment = "Center",
                                            !.vertical_alignment = "Center"]
        back ==
            [set_handler(
                 set_handler(
                     set_handler(
                         set_handler(UINode_new(border), "MouseEnter", "back_mouse_enter"),
                         "MouseLeave", "back_mouse_leave"),
                     "MouseDown", "back_mouse_down"),
                 "MouseUp", "back_mouse_up")
             EXCEPT !.color = normal_color]
        k == add_node(b.ui, back)
        t == add_node(k.ui, UINode_new(text_kind))
        ui1 == link_nodes(t.ui, t.handle, k.handle)
        ui2 == link_nodes(ui1, k.handle, b.handle)
    IN  [ui |-> ui2, handle |-> b.handle]

\* ------------------------------------------------------------------------
\* The editor: Editor, its message queue, scenes and interaction modes
\* ------------------------------------------------------------------------

\* pub const MSG_SYNC_FLAG: u64 = 1
MSG_SYNC_FLAG == 1

\* Option::None of EditorScene::path and Editor::current_interaction_mode.
None == "None"

\* Editor::scene: None, or Some(EditorScene { scene, path, .. }).
NoScene == [is_some |-> FALSE]

EditorScene(scene, path) == [is_some |-> TRUE, scene |-> scene, path |-> path]

\* enum InteractionModeKind, in the order of the objects set_scene creates.
InteractionModeKinds ==
    {"Select", "Move", "Scale", "Rotate", "Navmesh", "Terrain"}

\* Mode::Edit
Mode_Edit == [tag |-> "Edit"]

\* Mode::Play { scene, existing_scenes }
Mode_Play(scene, existing_scenes) ==
    [tag |-> "Play", scene |-> scene, existing_scenes |-> existing_scenes]

\* Editor::new: no scene, no interaction mode objects, Edit mode.  scenes is
\* engine.scenes (the handles alive), spawned the number of handles the
\* scene pool gave out, messages the channel of message_sender and
\* message_receiver, ui_messages the queue of the user interface.
\* set_interaction_mode(Some(Move)) at the end of new finds no scene and
\* changes nothing.  handled, saves, play_scenes and kept are records of what
\* happened: the panel handlers handle_ui_message called, the outcomes of
\* save_current_scene, the scenes made for or during play mode, and the
\* scenes that were there when play mode was entered from Edit mode; shown
\* holds the message boxes and modal windows that are open.
Editor_new ==
    [ scene |-> NoScene,
      scenes |-> {},
      spawned |-> 0,
      messages |-> << >>,
      ui_messages |-> << >>,
      interaction_modes |-> << >>,
      current_interaction_mode |-> None,
      exit |-> FALSE,
      mode |-> Mode_Edit,
      handled |-> << >>,
      saves |-> << >>,
      play_scenes |-> {},
      kept |-> {},
      shown |-> {} ]

\* message_sender.send(message)
send(e, message) == [e EXCEPT !.messages = Append(@, message)]

\* engine.user_interface.send_message(message); a message that opens a
\* message box or a modal window shows that widget.
send_message(e, message) ==
    [e EXCEPT !.ui_messages = Append(@, message),
              !.shown = IF message.data \in {"MessageBoxMessage::Open",
                                             "WindowMessage::OpenModal"}
                        THEN @ \cup {message.destination}
                        ELSE @]

\* engine.scenes.add(scene): a handle no earlier scene had.
scenes_add(e) ==
    [e EXCEPT !.scenes = @ \cup {e.spawned + 1}, !.spawned = @ + 1]

\* engine.scenes.remove(handle)
scenes_remove(e, handle) ==
    [e EXCEPT !.scenes = @ \ {handle}, !.kept = @ \ {handle}]

\* UiMessage::has_flags, for a flag of one bit: self.flags & flags != 0
has_flags(message, flags) == (message.flags \div flags) % 2 = 1

\* The panels whose handle_ui_message runs for every message, and those that
\* run while a scene is open.
Panels ==
    << "configurator", "menu", "log", "asset_browser", "command_stack_viewer",
       "curve_editor", "path_fixer", "scene_viewer" >>

ScenePanels ==
    << "audio_panel", "navmesh_panel", "inspector", "interaction_mode",
       "world_viewer", "light_panel", "material_editor" >>

\* The handlers of the panels: each one is recorded with the message it got.
handle_in_panels(e, message, panels) ==
    [e EXCEPT !.handled =
        @ \o [i \in DOMAIN panels |-> [panel |-> panels[i], message |-> message]]]

\* The end of handle_ui_message while a scene is open: the answer of the
\* exit message box and the commit of the save file selector.
handle_exit_answer(e, message) ==
    IF message.data = "MessageBoxMessage::Close"
    THEN IF message.destination = "exit_message_box"
         THEN CASE message.result = "No" ->
                       send(e, [type |-> "Exit", force |-> TRUE])
                [] message.result = "Yes" ->
                       IF e.scene.path # None
                       THEN send(send(e, [type |-> "SaveScene", path |-> e.scene.path]),
                                 [type |-> "Exit", force |-> TRUE])
                       ELSE send_message(e,
                                [data |-> "WindowMessage::OpenModal",
                                 destination |-> "save_file_selector",
                                 flags |-> 0])
                [] OTHER -> e
         ELSE e
    ELSE IF message.data = "FileSelectorMessage::Commit"
    THEN IF message.destination = "save_file_selector"
         THEN send(send(e, [type |-> "SaveScene", path |-> message.path]),
                   [type |-> "Exit", force |-> TRUE])
         ELSE e
    ELSE e

\* Editor::handle_ui_message without the test of MSG_SYNC_FLAG.
handle_ui_message_any_flags(e, message) ==
    LET p == [e EXCEPT !.handled =
                 @ \o [i \in 1 .. 8 |-> [panel |-> i, message |-> message]]]
    IN  IF message.data = "MessageBoxMessage::Close"
           /\ message.destination = "exit_message_box"
           /\ message.result = "No"
           /\ e.scene.is_some
        THEN [p EXCEPT !.messages = Append(@, [type |-> "Exit", force |-> TRUE])]
        ELSE p

\* Editor::handle_ui_message
handle_ui_message(e, message) ==
    IF has_flags(message, MSG_SYNC_FLAG)
    THEN e
    ELSE LET p == handle_in_panels(e, message, Panels)
         IN  IF p.scene.is_some
             THEN handle_exit_answer(
                      handle_in_panels(p, message,
                          IF p.current_interaction_mode # None
                          THEN ScenePanels
                          ELSE SelectSeq(ScenePanels,
                                   LAMBDA n : n # "interaction_mode")),
                      message)
             ELSE p

\* poll_ui_messages: handle_ui_message for every message in the queue of the
\* user interface, those sent meanwhile included.
RECURSIVE poll_ui_messages(_)
poll_ui_messages(e) ==
    IF e.ui_messages = << >>
    THEN e
    ELSE poll_ui_messages(
             handle_ui_message([e EXCEPT !.ui_messages = Tail(@)],
                               Head(e.ui_messages)))

\* Editor::set_interaction_mode
set_interaction_mode(e, mode) ==
    IF e.scene.is_some /\ e.current_interaction_mode # mode
    THEN LET d == IF e.current_interaction_mode # None
                  THEN [e EXCEPT !.interaction_modes[e.current_interaction_mode].active = FALSE]
                  ELSE e
             c == [d EXCEPT !.current_interaction_mode = mode]
         IN  IF mode # None
             THEN [c EXCEPT !.interaction_modes[mode].active = TRUE]
             ELSE c
    ELSE e

\* Editor::set_scene: the scene pool gives the new scene its handle in
\* EditorScene::from_native_scene; the six interaction mode objects are
\* created anew, none of them activated.
set_scene(e, path) ==
    LET r == IF e.scene.is_some THEN scenes_remove(e, e.scene.scene) ELSE e
        p == poll_ui_messages([r EXCEPT !.scene = NoScene])
        a == scenes_add(p)
        m == [a EXCEPT !.interaction_modes =
                           [k \in InteractionModeKinds |-> [active |-> FALSE]],
                       !.scene = EditorScene(a.spawned, path)]
    IN  set_interaction_mode(m, "Move")

\* Editor::create_new_scene
create_new_scene(e) == set_scene(e, None)

\* Editor::load_scene: loaded is whether SceneLoader::from_file succeeded.
load_scene(e, scene_path, loaded) ==
    IF loaded THEN set_scene(e, scene_path) ELSE send(e, [type |-> "Log"])

\* Editor::close_current_scene
close_current_scene(e) ==
    IF e.scene.is_some
    THEN [scenes_remove(e, e.scene.scene) EXCEPT !.scene = NoScene]
    ELSE e

\* Editor::set_play_mode
set_play_mode(e) ==
    IF e.scene.is_some
    THEN LET existing_scenes == e.scenes
             a == scenes_add(e)
         IN  [a EXCEPT !.mode = Mode_Play(a.spawned, existing_scenes),
                       !.play_scenes = @ \cup {a.spawned},
                       !.kept = IF e.mode.tag = "Edit" THEN existing_scenes ELSE @]
    ELSE e

\* Editor::set_editor_mode
set_editor_mode(e) ==
    IF e.scene.is_some
    THEN IF e.mode.tag = "Play"
         THEN [e EXCEPT !.mode = Mode_Edit,
                        !.scenes = (@ \ {e.mode.scene}) \cap e.mode.existing_scenes]
         ELSE [e EXCEPT !.mode = Mode_Edit]
    ELSE e

\* Editor::save_current_scene: saved is the result of EditorScene::save,
\* Err when the scene fails validation.
save_current_scene(e, path, saved) ==
    IF e.scene.is_some
    THEN LET s == [e EXCEPT !.saves = Append(@, [path |-> path, ok |-> saved])]
         IN  IF saved
             THEN send(s, [type |-> "Log"])
             ELSE send_message(send(s, [type |-> "Log"]),
                      [data |-> "MessageBoxMessage::Open",
                       destination |-> "validation_message_box", flags |-> 0])
    ELSE e

\* Editor::exit
exit(e, force) ==
    IF force
    THEN [e EXCEPT !.exit = TRUE]
    ELSE IF e.scene.is_some
    THEN send_message(e, [data |-> "MessageBoxMessage::Open",
                          destination |-> "exit_message_box", flags |-> 0])
    ELSE [e EXCEPT !.exit = TRUE]

\* The body of the loop of Editor::update for one message.
handle_message(e, message, saved, loaded) ==
    CASE message.type = "SaveScene" -> save_current_scene(e, message.path, saved)
      [] message.type = "LoadScene" -> load_scene(e, message.path, loaded)
      [] message.type = "SetInteractionMode" -> set_interaction_mode(e, message.kind)
      [] message.type = "Exit" -> exit(e, message.force)
      [] message.type = "CloseScene" -> close_current_scene(e)
      [] message.type = "NewScene" -> create_new_scene(e)
      [] message.type = "SwitchMode" ->
             IF e.mode.tag = "Edit" THEN set_play_mode(e) ELSE set_editor_mode(e)
      [] message.type = "SwitchToPlayMode" -> set_play_mode(e)
      [] message.type = "SwitchToEditMode" -> set_editor_mode(e)
      [] OTHER -> e

\* while let Ok(message) = self.message_receiver.try_recv()
RECURSIVE receive_messages(_, _, _)
receive_messages(e, saved, loaded) ==
    IF e.messages = << >>
    THEN e
    ELSE receive_messages(
             handle_message([e EXCEPT !.messages = Tail(@)], Head(e.messages),
                            saved, loaded),
             saved, loaded)

\* Editor::update: in play mode the plugins and scripts are updated first,
\* and plugin_adds tells whether they add a scene to the engine.
Editor_update(e, saved, loaded, plugin_adds) ==
    LET p == IF e.mode.tag = "Play" /\ plugin_adds
             THEN [scenes_add(e) EXCEPT !.play_scenes = @ \cup {e.spawned + 1}]
             ELSE e
    IN  receive_messages(p, saved, loaded)
\* ------------------------------------------------------------------------
\* The calls of the host
\* ------------------------------------------------------------------------

\* The handles a caller can hold: Handle::none(), the handles of the spawned
\* nodes, and a handle that does not resolve.
KnownHandles == {NONE, STALE} \cup DOMAIN nodes

\* The parent field a handle had when the call began (NONE when the handle
\* does not resolve): recorded with the call.
ParentOf(h) == IF is_valid_handle(nodes, h) THEN nodes[h].parent ELSE NONE

\* The place of h in a child list, counted from 1 (0 when it is not there).
PositionIn(seq, h) ==
    IF \E i \in DOMAIN seq : seq[i] = h
    THEN CHOOSE k \in DOMAIN seq : seq[k] = h /\ \A j \in 1 .. (k - 1) : seq[j] # h
    ELSE 0

RECURSIVE Subtree(_, _, _)
\* The handles reached from h through child lists in at most k steps, h
\* included: the node and its descendants.
Subtree(pool, h, k) ==
    IF k = 0 \/ ~is_valid_handle(pool, h)
    THEN {}
    ELSE {h} \cup UNION { Subtree(pool, pool[h].children[i], k - 1) :
                            i \in DOMAIN pool[h].children }

\* No press / move away / release sequence is under way.
Idle == [stage |-> 0, button |-> NONE, clicks |-> 0]

\* How many times the click handler ran during a call.
ClickCount(invoked) ==
    Cardinality({i \in DOMAIN invoked : invoked[i].handler = OnClick})

\* The button whose subtree holds node h and that has a click handler (NONE
\* when there is none).
ButtonOver(pool, h) ==
    LET bs == { b \in DOMAIN pool :
                  /\ pool[b].kind.tag = "Button"
                  /\ pool[b].kind.click # NoHandler
                  /\ h \in Subtree(pool, b, Len(pool)) }
    IN  IF bs = {} THEN NONE ELSE CHOOSE b \in bs : TRUE

\* The point lies outside the screen bounds of node h.
Outside(pool, h, pt) == ~Rect_contains(get_screen_bounds(pool[h]), pt)

\* The progress of the sequence after process_event(event) took the
\* interface from `ui` to `after`:
\*   stage 1  MouseInput(Pressed) came while the picked node was in the
\*            subtree of a button with a click handler;
\*   stage 2  then the cursor moved to a point outside that button;
\*   stage 3  then MouseInput(Released) came.
\* clicks counts the runs of the click handler since the press.
ScenarioAfterEvent(ui, after, event) ==
    LET n == ClickCount(after.invoked)
    IN  IF event.type = "MouseInput" /\ event.state = "Pressed"
        THEN IF ButtonOver(ui.nodes, ui.picked_node) # NONE
             THEN [stage |-> 1, button |-> ButtonOver(ui.nodes, ui.picked_node),
                   clicks |-> n]
             ELSE Idle
        ELSE IF event.type = "CursorMoved" /\ scenario.stage \in {1, 2}
        THEN [scenario EXCEPT
                 !.stage = IF Outside(ui.nodes, scenario.button, event.position)
                           THEN 2 ELSE 1,
                 !.clicks = @ + n]
        ELSE IF event.type = "MouseInput" /\ event.state = "Released"
                /\ scenario.stage = 2
        THEN [scenario EXCEPT !.stage = 3, !.clicks = @ + n]
        ELSE Idle

\* A frame (update, draw) does not interrupt a sequence under way.
ScenarioAfterFrame == IF scenario.stage \in {1, 2} THEN scenario ELSE Idle

\* The state after a call that returned ui.
Commit(ui, c, s) ==
    /\ nodes' = ui.nodes
    /\ drawing_context' = ui.drawing_context
    /\ root_canvas' = ui.root_canvas
    /\ picked_node' = ui.picked_node
    /\ prev_picked_node' = ui.prev_picked_node
    /\ captured_node' = ui.captured_node
    /\ fault' = ui.fault
    /\ call' = c
    /\ scenario' = s
    /\ UNCHANGED editor

Init ==
    /\ nodes = UserInterface_new.nodes
    /\ drawing_context = UserInterface_new.drawing_context
    /\ root_canvas = UserInterface_new.root_canvas
    /\ picked_node = UserInterface_new.picked_node
    /\ prev_picked_node = UserInterface_new.prev_picked_node
    /\ captured_node = UserInterface_new.captured_node
    /\ fault = UserInterface_new.fault
    /\ call = [op |-> "new"]
    /\ scenario = Idle
    /\ editor = Editor_new

\* ui.add_node(UINode::new(UINodeKind::Base))
AddNode ==
    /\ Len(nodes) < MaxNodes
    /\ LET r == add_node(Self, UINode_new(Kind("Base")))
       IN  Commit(r.ui, [op |-> "add_node", result |-> r.handle], Idle)

\* ui.link_nodes(&child, &parent).  The call is recorded with the parent the
\* child had when it began and the child's place in that parent's list.
LinkNodes ==
    \E child \in KnownHandles, parent \in KnownHandles :
        Commit(link_nodes(Self, child, parent),
               [op |-> "link_nodes", child |-> child, parent |-> parent,
                from |-> ParentOf(child),
                position |-> IF is_valid_handle(nodes, ParentOf(child))
                             THEN PositionIn(nodes[ParentOf(child)].children, child)
                             ELSE 0],
               Idle)

\* ui.unlink_node(&node)
UnlinkNode ==
    \E node \in KnownHandles :
        Commit(unlink_node(Self, node),
               [op |-> "unlink_node", node |-> node, from |-> ParentOf(node)], Idle)

Next ==
    \/ AddNode
    \/ UnlinkNode
    \/ LinkNodes

\* The widget tree under every sequence of add_node, link_nodes, unlink_node.
Spec == Init /\ [][Next]_vars

\* ------------------------------------------------------------------------
\* The calls of the host of a user interface with a button
\* ------------------------------------------------------------------------

\* The viewport the frame driver passes to update: 800 x 600 px.
ScreenSize == Vec2_make(8000, 6000)

\* The cursor positions the window system reports: one inside a button at
\* the origin of the root canvas (its default place), one outside.
Points == { Vec2_make(500, 200), Vec2_make(4000, 4000) }

\* The window events: cursor moves and presses and releases of the left
\* mouse button (no handler reads the button of the event).  For an event
\* of any other type process_event only copies picked_node to
\* prev_picked_node.
Events ==
    [type : {"CursorMoved"}, position : Points]
        \cup [type : {"MouseInput"}, state : {"Pressed", "Released"}]

\* The font cache the renderer passes to draw: the default font resolves.
FontCaches == { {DefaultFont} }

NodesOfKind(tag) == { h \in DOMAIN nodes : nodes[h].kind.tag = tag }

\* ui.create_button("OK")
CreateButton ==
    /\ Cardinality(NodesOfKind("Button")) < MaxButtons
    /\ LET r == create_button(Self, "OK")
       IN  Commit(r.ui, [op |-> "create_button", result |-> r.handle], Idle)

\* ui.get_node_mut(&h) ... button.set_on_click(Box::new(..))
SetOnClick ==
    \E h \in NodesOfKind("Button") :
        /\ nodes[h].kind.click = NoHandler
        /\ Commit([Self EXCEPT !.nodes[h].kind.click = OnClick],
                  [op |-> "set_on_click", node |-> h], Idle)

\* What update computes for every node of the pool.
Layout(pool) ==
    [h \in DOMAIN pool |->
        IF is_valid_handle(pool, h)
        THEN [desired_size |-> pool[h].desired_size,
              actual_size |-> pool[h].actual_size,
              actual_local_position |-> pool[h].actual_local_position,
              screen_position |-> pool[h].screen_position]
        ELSE Vacant]

\* ui.update(&screen_size).  The call is recorded with the measure and
\* arrange calls it made and, when the call before it was update as well,
\* with the layout it found; it is recorded as "abort" when the process
\* ended in it, and no call follows.
Update ==
    /\ call.op # "abort"
    /\ \E outcome \in NullOutcomes :
           \E ui \in {update([Self EXCEPT !.null_deref = outcome], ScreenSize)} :
               Commit(ui, [op |-> IF ui.aborted THEN "abort" ELSE "update",
                           measured |-> ui.measured, arranged |-> ui.arranged,
                           again |-> call.op = "update",
                           before |-> IF call.op = "update" THEN Layout(nodes) ELSE << >>],
                      ScenarioAfterFrame)

\* ui.draw(&font_cache)
Draw ==
    /\ Len(nodes[root_canvas].command_indices) < MaxFrames
    /\ \E font_cache \in FontCaches :
           \E ui \in {draw(Self, font_cache)} :
               Commit(ui, [op |-> "draw", clips |-> ui.clips, drawn |-> ui.drawn], ScenarioAfterFrame)

\* ui.process_event(&event).  The call is recorded with the node that held
\* the capture when it began, the route_event calls it made and the
\* handlers that ran.
ProcessEvent ==
    \E event \in Events :
        \E ui \in {process_event(Self, event)} :
            Commit(ui,
                   [op |-> "process_event", event |-> event, held |-> captured_node,
                    routed |-> ui.routed, invoked |-> ui.invoked],
                   ScenarioAfterEvent(Self, ui, event))

\* ui.capture_mouse(&node).  The call is recorded with the node that held
\* the capture when it began.
CaptureMouse ==
    \E node \in KnownHandles :
        LET r == capture_mouse(Self, node)
        IN  Commit(r.ui, [op |-> "capture_mouse", node |-> node, held |-> captured_node,
                          result |-> r.result], Idle)

\* ui.release_mouse_capture()
ReleaseMouseCapture ==
    Commit(release_mouse_capture(Self), [op |-> "release_mouse_capture"], Idle)

NextInput ==
    \/ CreateButton
    \/ SetOnClick
    \/ Update
    \/ Draw
    \/ ProcessEvent
    \/ CaptureMouse
    \/ ReleaseMouseCapture

\* A user interface with buttons under every sequence of frames, window
\* events and capture calls.
SpecInput == Init /\ [][NextInput]_vars

\* ------------------------------------------------------------------------
\* A host that builds a tree of widgets and then runs frames
\* ------------------------------------------------------------------------

\* An explicit width a host sets with set_width: 40 px.
PlainWidth == 400

\* A left margin wider than a button: 300 px.
WideMargin == 3000

\* The plain nodes added under SpecFrame: UINode::new(UINodeKind::Base) as it
\* is, with set_width(40.0), and with a field the layout and drawing passes
\* read set to a value other than its default.  visibility and margin have
\* no setter in this file; code of the gui module writes them.
PlainNodes ==
    { UINode_new(Kind("Base")),
      [UINode_new(Kind("Base")) EXCEPT !.width = PlainWidth],
      [UINode_new(Kind("Base")) EXCEPT !.width = PlainWidth, !.visibility = "Collapsed"],
      [UINode_new(Kind("Base")) EXCEPT !.visibility = "Hidden"],
      [UINode_new(Kind("Base")) EXCEPT !.margin.left = WideMargin] }

\* The handles the host got from add_node and create_button that resolve.
HostHandles ==
    { h \in DOMAIN nodes :
        is_valid_handle(nodes, h) /\ nodes[h].kind.tag \in {"Base", "Button"} }

\* No slot of the pool was vacated.
AllLive == \A h \in DOMAIN nodes : is_valid_handle(nodes, h)

\* No frame has run yet.
BeforeFrames == call.op \in {"new", "build"}

\* The host builds the tree first: no frame has run yet and no node was
\* freed.
Building == BeforeFrames /\ AllLive

\* ui.add_node(node) for a plain node: the first widget of the host, if it
\* adds one.
AddPlain ==
    /\ Building
    /\ Cardinality(HostHandles) < MaxWidgets
    /\ HostHandles = {}
    /\ \E node \in PlainNodes :
           \E r \in {add_node(Self, node)} :
               Commit(r.ui, [op |-> "build"], Idle)

\* ui.create_button("OK") while the tree is built.
NewButton ==
    /\ Building
    /\ Cardinality(HostHandles) < MaxWidgets
    /\ \E r \in {create_button(Self, "OK")} :
           Commit(r.ui, [op |-> "build"], Idle)

\* ui.link_nodes(&child, &parent): the host moves a widget that is a child
\* of the root canvas into another of its widgets.
Relink ==
    /\ Building
    /\ \E child \in HostHandles, parent \in HostHandles :
           /\ nodes[child].parent = root_canvas
           /\ parent \notin Subtree(nodes, child, Len(nodes))
           /\ Commit(link_nodes(Self, child, parent), [op |-> "build"], Idle)

\* self.nodes.free(h): a node is freed while its parent still lists it.
\* One node is freed at most, when the tree is built.
FreeNode ==
    /\ Building
    /\ \E h \in HostHandles :
           Commit([Self EXCEPT !.nodes = free(@, h)], [op |-> "build"], Idle)

\* ui.draw(&font_cache), after update or without it.
DrawFrame ==
    /\ call.op \in {"build", "update"}
    /\ Draw

NextFrame ==
    \/ AddPlain
    \/ NewButton
    \/ Relink
    \/ FreeNode
    \/ Update
    \/ DrawFrame

\* A tree of plain nodes and buttons, built and then laid out and drawn.
SpecFrame == Init /\ [][NextFrame]_vars


\* ------------------------------------------------------------------------
\* Event routing, one route_event call at a time
\* ------------------------------------------------------------------------

\* The route_event calls of one event the model follows; the recursion of
\* route_event itself has no bound.
MaxRoute == 7

\* The handler slots the host fills with set_handler and the mouse button
\* events route through.
RoutedTypes == {"MouseDown", "MouseUp"}

\* The link_nodes and set_handler calls the host makes between the cursor
\* move and the mouse button event.
MaxSetUp == 2

\* The cursor was moved over the interface after a frame was drawn: the host
\* now links nodes and sets handlers, then a mouse button event comes.
Pointing == call.op \in {"process_event", "set_up"}

\* The calls the host made since the cursor move.
SetUpCount == IF call.op = "set_up" THEN call.count ELSE 0

SetUp == [op |-> "set_up", count |-> SetUpCount + 1]

\* The buttons of the interface whose routing is followed.
MaxRouted == 2

\* ui.create_button("OK")
RoutedButton == Cardinality(HostHandles) < MaxRouted /\ NewButton

\* ui.update(&screen_size), the first frame.
FirstUpdate == BeforeFrames /\ Update

\* ui.process_event(&CursorMoved) after the frame was drawn.
MoveCursor ==
    /\ call.op = "draw"
    /\ \E position \in Points :
           \E ui \in {process_event(Self, [type |-> "CursorMoved", position |-> position])} :
               Commit(ui, [op |-> "process_event"], Idle)

\* ui.link_nodes(&child, &parent) with any two handles the host holds.
LinkAny ==
    /\ Pointing /\ SetUpCount < MaxSetUp
    /\ \E child \in HostHandles, parent \in HostHandles :
           Commit(link_nodes(Self, child, parent), SetUp, Idle)

\* ui.get_node_mut(&h) ... node.set_handler(type, Box::new(..))
SetHandler ==
    /\ Pointing /\ SetUpCount < MaxSetUp
    /\ \E h \in HostHandles, type \in RoutedTypes, handler \in HostHandlers :
           Commit([Self EXCEPT !.nodes[h] = set_handler(@, type, handler)],
                  SetUp, Idle)

\* The handler slot of every node for the event type, as it is now.
HandlersNow(type) ==
    [h \in DOMAIN nodes |-> IF is_valid_handle(nodes, h)
                            THEN nodes[h].event_handlers[type] ELSE NoHandler]

\* The parent of every node, as it is now.
ParentsNow == [h \in DOMAIN nodes |-> ParentOf(h)]

\* ui.process_event(&MouseInput) up to its call of route_event: the call is
\* recorded with the target, the parents and the handlers of the nodes at
\* that moment, and for every route_event call that came to its end or
\* to its recursive call the node, the parent it read, the handlers that
\* ran and the value of handled.
MouseInput ==
    /\ Pointing
    /\ \E state \in {"Pressed", "Released"} :
           LET type == IF state = "Pressed" THEN "MouseDown" ELSE "MouseUp"
           IN  IF is_none(picked_node)
               THEN Commit(set_prev_picked_node(Self),
                           [op |-> "routed", type |-> type, target |-> NONE,
                            parents |-> ParentsNow, handlers |-> HandlersNow(type),
                            steps |-> << >>], Idle)
               ELSE Commit(Self,
                           [op |-> "route_event", type |-> type, target |-> picked_node,
                            node_handle |-> picked_node,
                            event_args |-> RoutedEvent_new(type),
                            parents |-> ParentsNow, handlers |-> HandlersNow(type),
                            steps |-> << >>], Idle)

\* One call of route_event: the handler of call.node_handle runs; the event
\* goes on to the parent, or route_event returns to process_event, which
\* sets prev_picked_node.
RouteStep ==
    /\ call.op = "route_event"
    /\ Len(call.steps) < MaxRoute
    /\ \E s \in {route_event_step(Self, call.node_handle, call.type, call.event_args)} :
           LET steps == Append(call.steps, [node |-> call.node_handle,
                                            parent |-> s.parent,
                                            ran |-> s.ui.invoked,
                                            handled |-> s.evt.handled])
           IN  IF s.again
               THEN Commit(s.ui, [call EXCEPT !.node_handle = s.parent,
                                              !.event_args = s.evt,
                                              !.steps = steps], Idle)
               ELSE Commit(set_prev_picked_node(s.ui),
                           [op |-> "routed", type |-> call.type, target |-> call.target,
                            parents |-> call.parents, handlers |-> call.handlers,
                            steps |-> steps], Idle)

NextRoute ==
    \/ RoutedButton
    \/ Relink
    \/ FirstUpdate
    \/ DrawFrame
    \/ MoveCursor
    \/ LinkAny
    \/ SetHandler
    \/ MouseInput
    \/ RouteStep

\* A user interface whose host builds a tree, draws a frame, moves the
\* cursor, then links nodes and sets handlers between mouse button events.
SpecRoute == Init /\ [][NextRoute]_vars

\* ------------------------------------------------------------------------
\* The cursor over two buttons
\* ------------------------------------------------------------------------

\* Where the host puts a button so that it lies under the second cursor
\* position: 350 px to the right, 390 px down.
PlaceX == 3500

PlaceY == 3900

\* ui.get_node_mut(&b) ... node.set_desired_local_position(Vec2::make(350.0, 390.0))
PlaceButton ==
    /\ Building
    /\ \E b \in HostHandles :
           /\ nodes[b].desired_local_position = Vec2_new
           /\ Commit([Self EXCEPT !.nodes[b] =
                         set_desired_local_position(@, Vec2_make(PlaceX, PlaceY))],
                     [op |-> "build"], Idle)

\* ui.process_event(&event) once the frame was drawn.
FrameEvent == call.op \in {"draw", "process_event"} /\ ProcessEvent

NextHover ==
    \/ RoutedButton
    \/ PlaceButton
    \/ FirstUpdate
    \/ DrawFrame
    \/ FrameEvent

\* A user interface with buttons at two places under every sequence of
\* window events after its first frame.
SpecHover == Init /\ [][NextHover]_vars

\* ------------------------------------------------------------------------
\* A handler that frees its node, and the frame after it
\* ------------------------------------------------------------------------

\* ui.get_node_mut(&h) ... node.set_handler(type, Box::new(..)) with the
\* closure that frees the node.
SetFreeingHandler ==
    /\ call.op = "process_event"
    /\ \E h \in HostHandles, type \in RoutedTypes :
           Commit([Self EXCEPT !.nodes[h] = set_handler(@, type, FreeingHandler)],
                  SetUp, Idle)

\* ui.get_node_mut(&h) ... node.set_handler(type, Box::new(..)) with the
\* closure that installs another closure in its own slot.
SetInstallingHandler ==
    /\ call.op = "process_event"
    /\ \E h \in HostHandles, type \in RoutedTypes :
           Commit([Self EXCEPT !.nodes[h] = set_handler(@, type, InstallingHandler)],
                  SetUp, Idle)

\* ui.update(&screen_size), the frame after the mouse button event.
UpdateAfterEvent == call.op = "routed" /\ Update

\* ui.draw(&font_cache), the frame after the mouse button event.
DrawAfterEvent ==
    /\ call.op = "update"
    /\ Len(nodes[root_canvas].command_indices) \in 1 .. MaxFrames
    /\ \E font_cache \in FontCaches :
           \E ui \in {draw(Self, font_cache)} :
               Commit(ui, [op |-> "redraw", clips |-> ui.clips, drawn |-> ui.drawn], Idle)

NextFree ==
    \/ RoutedButton
    \/ Relink
    \/ FirstUpdate
    \/ DrawFrame
    \/ MoveCursor
    \/ SetFreeingHandler
    \/ SetInstallingHandler
    \/ MouseInput
    \/ RouteStep
    \/ UpdateAfterEvent
    \/ DrawAfterEvent

\* A user interface with buttons whose host draws a frame, moves the
\* cursor, sets a handler that frees its node or writes its slot, gets a mouse button event and
\* draws the next frame.
SpecFree == Init /\ [][NextFree]_vars
\* ------------------------------------------------------------------------
\* A host that fills a grid with cells and runs the layout pass
\* ------------------------------------------------------------------------

\* The grid of the host: UINode::new(UINodeKind::Grid) with set_width(600.0)
\* and set_height(100.0).  UINodeKind::Grid is a unit variant: the node has
\* no field that holds row or column definitions.
GridNode == set_height(set_width(UINode_new(Kind("Grid")), 6000), 1000)

\* The columns a cell is assigned to.
GridColumns == {0, 1}

\* The explicit width and height the host sets on a cell: -10 px, below
\* min_size.
CellSizes == {-100}

\* The handles of the grids.
Grids == NodesOfKind("Grid")

\* The handles of the cells: the plain nodes the host added.
Cells == NodesOfKind("Base")

\* ui.add_node(grid): the host adds one grid.
AddGrid ==
    /\ Building
    /\ Grids = {}
    /\ \E r \in {add_node(Self, GridNode)} :
           Commit(r.ui, [op |-> "build"], Idle)

\* ui.add_node(cell) for a plain node assigned to a column, once the grid
\* is there.  column has no setter in this file; code of the gui module
\* writes it.
AddCell ==
    /\ Building
    /\ Grids # {}
    /\ Cardinality(Grids \cup Cells) < MaxWidgets
    /\ \E column \in GridColumns :
           \E r \in {add_node(Self, [UINode_new(Kind("Base")) EXCEPT !.column = column])} :
               Commit(r.ui, [op |-> "build"], Idle)

\* ui.link_nodes(&cell, &grid): a cell becomes the last child of the grid.
LinkCell ==
    /\ Building
    /\ \E cell \in Cells, grid \in Grids :
           /\ nodes[cell].parent = root_canvas
           /\ Commit(link_nodes(Self, cell, grid), [op |-> "build"], Idle)

\* node.set_width(w) on a cell.
SetWidth ==
    /\ Building
    /\ \E cell \in Cells, w \in CellSizes :
           /\ is_nan(nodes[cell].width)
           /\ Commit([Self EXCEPT !.nodes[cell] = set_width(@, w)], [op |-> "build"], Idle)

\* node.set_height(h) on a cell.
SetHeight ==
    /\ Building
    /\ \E cell \in Cells, h \in CellSizes :
           /\ is_nan(nodes[cell].height)
           /\ Commit([Self EXCEPT !.nodes[cell] = set_height(@, h)], [op |-> "build"], Idle)

NextGrid ==
    \/ AddGrid
    \/ AddCell
    \/ LinkCell
    \/ SetWidth
    \/ SetHeight
    \/ Update

\* A grid and its cells, built and then laid out.
SpecGrid == Init /\ [][NextGrid]_vars

\* ------------------------------------------------------------------------
\* A host that changes the text of a button between frames
\* ------------------------------------------------------------------------

\* The strings the host gives to set_text.
Texts == {"OK", ""}

\* The handles the host gives to set_font: the default font, and a handle
\* the font cache does not resolve.
Fonts == {DefaultFont, NONE}

\* The handles of the text nodes.
TextNodes == NodesOfKind("Text")

\* How many times draw has run: the root canvas pushes one index a frame.
Frames == Len(nodes[root_canvas].command_indices)

\* ui.create_button("OK"): the one button of the host.
TextButton ==
    /\ Building
    /\ NodesOfKind("Button") = {}
    /\ \E r \in {create_button(Self, "OK")} :
           Commit(r.ui, [op |-> "build"], Idle)

\* text.set_text(s) on the text of the button, with another string.
SetText ==
    \E h \in TextNodes, s \in Texts :
        /\ nodes[h].kind.text # s
        /\ Commit([Self EXCEPT !.nodes[h].kind = Text_set_text(@, s)],
                  [op |-> "set_text"], Idle)

\* text.set_font(font) on the text of the button, with another handle.
SetFont ==
    \E h \in TextNodes, font \in Fonts :
        /\ nodes[h].kind.font # font
        /\ Commit([Self EXCEPT !.nodes[h].kind = Text_set_font(@, font)],
                  [op |-> "set_font"], Idle)

\* button.set_width(2.0): the button becomes narrower than the two strokes
\* of its border child.
NarrowButton ==
    \E b \in NodesOfKind("Button") :
        /\ nodes[b].width = ButtonWidth
        /\ Commit([Self EXCEPT !.nodes[b] = set_width(@, ButtonStroke)],
                  [op |-> "set_width"], Idle)

\* ui.draw(&font_cache), frame after frame.
DrawText ==
    /\ Frames < MaxDraws
    /\ \E font_cache \in FontCaches : \E ui \in {draw(Self, font_cache)} :
           Commit(ui, [op |-> "draw", clips |-> ui.clips, drawn |-> ui.drawn,
                       font_cache |-> font_cache], Idle)

NextText ==
    \/ TextButton
    \/ SetText
    \/ SetFont
    \/ NarrowButton
    \/ Update
    \/ DrawText

\* A button whose text and font change between the frames.
SpecText == Init /\ [][NextText]_vars

\* ------------------------------------------------------------------------
\* resource::texture: TextureKind and the visit of a Texture
\* ------------------------------------------------------------------------

\* enum TextureKind
TextureKinds == {"R8", "RGB8", "RGBA8"}

\* TextureKind::new that takes every id it does not know for RGBA8.
TextureKind_new_never_fails(id) ==
    CASE id = 0 -> [ok |-> TRUE, kind |-> "R8"]
      [] id = 1 -> [ok |-> TRUE, kind |-> "RGB8"]
      [] OTHER -> [ok |-> TRUE, kind |-> "RGBA8"]

\* TextureKind::new: Ok(kind), or Err(format!("Invalid texture kind {}!", id)).
TextureKind_new(id) ==
    CASE id = 0 -> [ok |-> TRUE, kind |-> "R8"]
      [] id = 1 -> [ok |-> TRUE, kind |-> "RGB8"]
      [] id = 2 -> [ok |-> TRUE, kind |-> "RGBA8"]
      [] OTHER -> [ok |-> FALSE, id |-> id]

\* TextureKind::id
TextureKind_id(kind) ==
    CASE kind = "R8" -> 0
      [] kind = "RGB8" -> 1
      [] kind = "RGBA8" -> 2

\* A texture of some kind meets a visitor whose region holds a KindId: any
\* u32 the visited file can hold.
OpenVisitor ==
    /\ call.op = "new"
    /\ \E kind \in TextureKinds, id \in 0 .. MaxKindId :
           call' = [op |-> "open", kind |-> kind, KindId |-> id]
    /\ UNCHANGED << nodes, drawing_context, root_canvas, picked_node, prev_picked_node,
                    captured_node, fault, scenario, editor >>

\* Texture::visit with a writing visitor: self.kind.id() is stored.
VisitWrite ==
    /\ call.op \in {"open", "visit_write", "visit_read"}
    /\ call' = [op |-> "visit_write", kind |-> call.kind,
                KindId |-> TextureKind_id(call.kind)]
    /\ UNCHANGED << nodes, drawing_context, root_canvas, picked_node, prev_picked_node,
                    captured_node, fault, scenario, editor >>

\* Texture::visit with a reading visitor: the stored id is read and
\* `self.kind = TextureKind::new(kind)?` takes it, or the visit ends with
\* the error and the kind stays.
VisitRead ==
    /\ call.op \in {"open", "visit_write", "visit_read"}
    /\ \E r \in {TextureKind_new(call.KindId)} :
           call' = [op |-> "visit_read",
                    kind |-> IF r.ok THEN r.kind ELSE call.kind,
                    KindId |-> call.KindId, before |-> call.kind, result |-> r]
    /\ UNCHANGED << nodes, drawing_context, root_canvas, picked_node, prev_picked_node,
                    captured_node, fault, scenario, editor >>

NextTexture ==
    \/ OpenVisitor
    \/ VisitWrite
    \/ VisitRead

\* Textures written to and read from visitors.
SpecTexture == Init /\ [][NextTexture]_vars

\* ------------------------------------------------------------------------
\* editor utils: is_slice_equal_permutation
\* ------------------------------------------------------------------------

\* The slices the editor compares: up to MaxSliceLen elements, equal ones
\* among them.
Slices == UNION { [1 .. n -> {1, 2}] : n \in 0 .. MaxSliceLen }

\* utils::is_slice_equal_permutation
is_slice_equal_permutation(a, b) ==
    IF a = << >> /\ b # << >>
    THEN FALSE
    ELSE \A i \in DOMAIN a : \E j \in DOMAIN b : b[j] = a[i]

\* is_slice_equal_permutation(&a, &b)
CompareSlices ==
    /\ \E a \in Slices, b \in Slices :
           call' = [op |-> "is_slice_equal_permutation", a |-> a, b |-> b,
                    result |-> is_slice_equal_permutation(a, b)]
    /\ UNCHANGED << nodes, drawing_context, root_canvas, picked_node, prev_picked_node,
                    captured_node, fault, scenario, editor >>

\* Calls of is_slice_equal_permutation.
SpecSlices == Init /\ [][CompareSlices]_vars

\* ------------------------------------------------------------------------
\* The editor at work: messages of the menus, answers of the user, frames
\* ------------------------------------------------------------------------

\* The path of the scene file the user loads and saves.
ScenePath == "scene.rgs"

\* The messages the menus and the toolbar send.
UserMessages ==
    { [type |-> "NewScene"],
      [type |-> "LoadScene", path |-> ScenePath],
      [type |-> "CloseScene"],
      [type |-> "SetInteractionMode", kind |-> "Scale"],
      [type |-> "Exit", force |-> FALSE],
      [type |-> "SwitchMode"],
      [type |-> "SwitchToPlayMode"],
      [type |-> "SwitchToEditMode"] }

\* The answers the user gives in the exit message box and in the save file
\* selector while they are open.
Answers ==
    { [data |-> "MessageBoxMessage::Close", result |-> r,
       destination |-> "exit_message_box", flags |-> 0] : r \in {"Yes", "No"} }
    \cup
    { [data |-> "FileSelectorMessage::Commit", path |-> ScenePath,
       destination |-> "save_file_selector", flags |-> 0] }

\* What send_sync_message makes of a message: msg.flags = MSG_SYNC_FLAG
sync(message) == [message EXCEPT !.flags = MSG_SYNC_FLAG]

\* The editor is running: the event loop ends once exit is set.
Running == ~editor.exit

\* message_sender.send(message) by a menu item or a toolbar button; the next
\* frame receives it before the user reaches another one.
SendMessage ==
    /\ Running
    /\ editor.messages = << >>
    /\ \E message \in UserMessages :
           /\ editor' = send(editor, message)
           /\ call' = [op |-> "send"]
    /\ UNCHANGED << nodes, drawing_context, root_canvas, picked_node, prev_picked_node,
                    captured_node, fault, scenario >>

\* The user answers an open message box or file selector, which closes it.
Answer ==
    /\ Running
    /\ editor.ui_messages = << >>
    /\ \E message \in Answers :
           /\ message.destination \in editor.shown
           /\ editor' = [editor EXCEPT !.ui_messages = Append(@, message),
                                       !.shown = @ \ {message.destination}]
           /\ call' = [op |-> "answer"]
    /\ UNCHANGED << nodes, drawing_context, root_canvas, picked_node, prev_picked_node,
                    captured_node, fault, scenario >>

\* send_sync_message(ui, msg), for a message that would make the editor
\* exit if it were handled
SendSyncMessage ==
    /\ Running
    /\ editor.ui_messages = << >>
    /\ \E message \in {a \in Answers : a.destination = "exit_message_box" /\ a.result = "No"} :
           /\ editor' = send_message(editor, sync(message))
           /\ call' = [op |-> "send_sync_message"]
    /\ UNCHANGED << nodes, drawing_context, root_canvas, picked_node, prev_picked_node,
                    captured_node, fault, scenario >>

\* update(editor): editor.update(FIXED_TIMESTEP), then poll_ui_messages.  The
\* call record keeps the messages that waited for editor.update and the two
\* queues as it left them: the messages sent and not yet received, and the
\* messages of the user interface poll_ui_messages then handled.
Frame ==
    /\ Running
    /\ \E saved \in BOOLEAN, loaded \in BOOLEAN, plugin_adds \in BOOLEAN :
           LET e == [editor EXCEPT !.handled = << >>, !.saves = << >>]
               u == Editor_update(e, saved, loaded, plugin_adds)
           IN  /\ u.spawned <= MaxSpawned
               /\ editor' = poll_ui_messages(u)
               /\ call' = [op |-> "update", received |-> editor.messages,
                           sent |-> u.messages, polled |-> u.ui_messages]
    /\ UNCHANGED << nodes, drawing_context, root_canvas, picked_node, prev_picked_node,
                    captured_node, fault, scenario >>

NextEditor == SendMessage \/ Answer \/ SendSyncMessage \/ Frame

\* The editor from Editor::new on.
SpecEditor == Init /\ [][NextEditor]_vars
\* ------------------------------------------------------------------------
\* Properties of the widget tree (checked under Spec)
\* ------------------------------------------------------------------------

\* How many entries of a child list are the handle h.
Count(seq, h) == Cardinality({i \in DOMAIN seq : seq[i] = h})

\* The nodes of the pool other than the root canvas.
NonRoot == DOMAIN nodes \ {root_canvas}

RECURSIVE ParentChain(_, _)
\* The handles met when following parent fields from h for at most k steps,
\* h included.
ParentChain(h, k) ==
    IF k = 0 \/ ~is_valid_handle(nodes, h)
    THEN {}
    ELSE {h} \cup ParentChain(nodes[h].parent, k - 1)

\* C1 (as claimed): every node other than the root canvas has a parent that
\* resolves, that parent's child list holds the node exactly once, and no
\* other child list holds it.
C1_EveryNodeHasOneParent ==
    \A n \in NonRoot :
        /\ is_valid_handle(nodes, nodes[n].parent)
        /\ Count(nodes[nodes[n].parent].children, n) = 1
        /\ \A q \in DOMAIN nodes :
               q # nodes[n].parent => Count(nodes[q].children, n) = 0

\* C1 (amended): a node other than the root canvas has at most one parent.
\* Its parent field may be null (after unlink_node) or may not resolve; when
\* it resolves, that parent's child list holds the node exactly once; and no
\* child list of another node holds it.
C1_ParentListsChildOnce ==
    \A n \in NonRoot :
        /\ is_valid_handle(nodes, nodes[n].parent)
               => Count(nodes[nodes[n].parent].children, n) = 1
        /\ \A q \in DOMAIN nodes :
               q # nodes[n].parent => Count(nodes[q].children, n) = 0

\* C1 witness: link_nodes has just moved a node from the root canvas under
\* another node, while some other node is unlinked.
C1_Witness ==
    /\ call.op = "link_nodes"
    /\ call.child \in NonRoot
    /\ call.from = root_canvas
    /\ call.parent \in NonRoot \ {call.child}
    /\ nodes[call.child].parent = call.parent
    /\ nodes[call.parent].parent = NONE

\* C2 (as claimed): the parent relation has no cycle: no node is met again
\* when following parent fields from its parent.
C2_NoParentCycle ==
    \A n \in DOMAIN nodes : n \notin ParentChain(nodes[n].parent, Len(nodes))

\* C3 (as claimed): the root canvas has no parent and is in no child list.
C3_RootHasNoParent ==
    /\ nodes[root_canvas].parent = NONE
    /\ \A q \in DOMAIN nodes : Count(nodes[q].children, root_canvas) = 0

\* link_nodes(child, parent) is called in a state where parent resolves and
\* is already the parent of child.
IsRelink(c) ==
    /\ c.op = "link_nodes"
    /\ is_valid_handle(nodes, c.child)
    /\ is_valid_handle(nodes, c.parent)
    /\ nodes[c.child].parent = c.parent

\* C4 (as claimed): link_nodes(child, parent) with parent already the parent
\* of child changes no node: every parent field and every child list, order
\* included, is as before.
C4_RelinkIsNoOp ==
    [][IsRelink(call') => nodes' = nodes]_vars

\* C4 (amended): link_nodes(child, parent) with parent already the parent of
\* child leaves every parent field and the content of every child list as
\* before; the one change is the order of parent's child list, where child
\* moves to the end (no change when it was the last entry already).
C4_RelinkMovesChildToEnd ==
    [][IsRelink(call') =>
          /\ DOMAIN nodes' = DOMAIN nodes
          /\ \A n \in DOMAIN nodes :
                 /\ nodes'[n].parent = nodes[n].parent
                 /\ \A h \in KnownHandles :
                        Count(nodes'[n].children, h) = Count(nodes[n].children, h)
                 /\ n # call'.parent => nodes'[n] = nodes[n]
          /\ nodes'[call'.parent] =
                 [nodes[call'.parent] EXCEPT !.children =
                      Append(RemoveFirst(@, call'.child), call'.child)]
      ]_vars

\* C4 witness: link_nodes was called for a child of its present parent that
\* was not the last entry of the child list, and is the last entry now.
C4_Witness ==
    /\ call.op = "link_nodes"
    /\ is_valid_handle(nodes, call.child)
    /\ is_valid_handle(nodes, call.parent)
    /\ call.from = call.parent
    /\ call.position >= 1
    /\ call.position < Len(nodes[call.parent].children)
    /\ nodes[call.parent].children[Len(nodes[call.parent].children)] = call.child

\* C5 (as claimed): after link_nodes(child, parent) with a parent handle that
\* does not resolve, the child has the parent it had before and that
\* parent's child list still holds it.
C5_LinkToMissingParentIsNoOp ==
    ( /\ call.op = "link_nodes"
      /\ is_valid_handle(nodes, call.child)
      /\ ~is_valid_handle(nodes, call.parent) )
    => /\ nodes[call.child].parent = call.from
       /\ is_valid_handle(nodes, call.from)
              => Count(nodes[call.from].children, call.child) = 1

\* ------------------------------------------------------------------------
\* Properties of the mouse capture, hit testing and the button
\* (checked under SpecInput)
\* ------------------------------------------------------------------------

\* C6: capture_mouse(h) returns true and makes h the captured node when no
\* capture is held and h resolves; in every other case it returns false and
\* the captured node is the one that held the capture before the call.
C6_CaptureOnlyWhenFree ==
    call.op = "capture_mouse" =>
        IF is_none(call.held) /\ is_valid_handle(nodes, call.node)
        THEN call.result /\ captured_node = call.node
        ELSE ~call.result /\ captured_node = call.held

\* C6 witness: capture_mouse was called with a handle that resolves while
\* another node held the capture, and was refused.
C6_Witness ==
    /\ call.op = "capture_mouse"
    /\ ~is_none(call.held)
    /\ is_valid_handle(nodes, call.node)
    /\ call.node # call.held
    /\ ~call.result
    /\ captured_node = call.held

\* The captured node and its descendants.
CapturedSubtree == Subtree(nodes, captured_node, Len(nodes))

\* C7: while a node that resolves holds the capture, hit_test returns for
\* every point the null handle or a handle of the captured node's subtree.
C7_HitTestInsideCapture ==
    is_valid_handle(nodes, captured_node) =>
        \A pt \in Points : hit_test(Self, pt) \in {NONE} \cup CapturedSubtree

\* C7 witness: a node holds the capture, the cursor point lies on a widget
\* outside its subtree (the search from the root canvas picks that widget),
\* and hit_test returns the null handle.
C7_Witness ==
    /\ is_valid_handle(nodes, captured_node)
    /\ \E pt \in Points :
           /\ pick_node(Self, root_canvas, pt, 0).picked \notin {NONE} \cup CapturedSubtree
           /\ hit_test(Self, pt) = NONE

\* C8 (as claimed): after MouseInput(Pressed) with the cursor over a button
\* that has a click handler, a CursorMoved to a point outside the button and
\* MouseInput(Released), the click handler has run exactly once and no node
\* holds the capture.
C8_ClickOnceAndCaptureReleased ==
    scenario.stage = 3 => scenario.clicks = 1 /\ is_none(captured_node)

\* C9 (as claimed): a CursorMoved to a point outside the bounds of a pressed
\* button that holds the capture routes MouseMove to a node of the button's
\* subtree, and the picked node is not null.
C9_MoveRoutedToCapturingButton ==
    ( /\ call.op = "process_event"
      /\ call.event.type = "CursorMoved"
      /\ IsButton(Self, call.held)
      /\ nodes[call.held].kind.was_pressed
      /\ Outside(nodes, call.held, call.event.position) )
    => /\ ~is_none(picked_node)
       /\ \E i \in DOMAIN call.routed :
              /\ call.routed[i].type = "MouseMove"
              /\ call.routed[i].target \in Subtree(nodes, call.held, Len(nodes))

\* C10 (as claimed): whenever the click handler of a button runs, it runs
\* from the button's MouseUp handler and was_pressed was true when that
\* handler began.
C10_ClickOnlyWhenPressed ==
    call.op = "process_event" =>
        \A i \in DOMAIN call.invoked :
            call.invoked[i].handler = OnClick =>
                /\ i > 1
                /\ call.invoked[i - 1].handler = "button_mouse_up"
                /\ call.invoked[i - 1].was_pressed

\* ------------------------------------------------------------------------
\* Properties of hit testing, layout and drawing (checked under SpecFrame)
\* ------------------------------------------------------------------------

\* The node hit_test starts its search at.
SearchRoot ==
    IF is_valid_handle(nodes, captured_node) THEN captured_node ELSE root_canvas

RECURSIVE PreOrder(_, _, _)
RECURSIVE PreOrderOfList(_, _, _, _)
\* The nodes of the subtree of h, parents before children and earlier
\* siblings before later ones (the order in which draw_node visits them).
PreOrder(pool, h, k) ==
    IF k = 0 \/ ~is_valid_handle(pool, h)
    THEN << >>
    ELSE << h >> \o PreOrderOfList(pool, pool[h].children, 1, k - 1)

PreOrderOfList(pool, children, i, k) ==
    IF i > Len(children)
    THEN << >>
    ELSE PreOrder(pool, children[i], k) \o PreOrderOfList(pool, children, i + 1, k)

\* The searched nodes in draw order.
Searched == PreOrder(nodes, SearchRoot, Len(nodes))

\* How many steps below the node the search starts at the i-th searched
\* node lies.
DepthOf(h) ==
    CHOOSE k \in 0 .. Len(nodes) :
        /\ h \in Subtree(nodes, SearchRoot, k + 1)
        /\ h \notin Subtree(nodes, SearchRoot, k)

\* The places in the draw order of the searched nodes that contain pt.
Containing(pt) ==
    { i \in DOMAIN Searched : is_node_contains_point(Self, Searched[i], pt) }

\* C11 (as claimed): hit_test(p) returns the null handle when no searched
\* node contains p; otherwise it returns a node that contains p, no node
\* that contains p lies deeper, and every other node of the same depth that
\* contains p comes earlier in the draw order.
C11_HitTestReturnsDeepest ==
    \A pt \in Points :
        IF Containing(pt) = {}
        THEN hit_test(Self, pt) = NONE
        ELSE \E r \in Containing(pt) :
                 /\ hit_test(Self, pt) = Searched[r]
                 /\ \A i \in Containing(pt) :
                        /\ DepthOf(Searched[i]) <= DepthOf(Searched[r])
                        /\ DepthOf(Searched[i]) = DepthOf(Searched[r]) => i <= r


\* ------------------------------------------------------------------------
\* Claims about measure and arrange
\* ------------------------------------------------------------------------

\* The nodes update called measure for.
Measured == { call.measured[i].node : i \in DOMAIN call.measured }

C16_DesiredWithinAvailable ==
    call.op = "update" =>
        \A i \in DOMAIN call.measured :
            LET h == call.measured[i].node
                available_size == call.measured[i].available
            IN  is_valid_handle(nodes, h) =>
                    /\ nodes[h].desired_size.x <= available_size.x
                    /\ nodes[h].desired_size.y <= available_size.y

\* A node with an explicit width was measured against a smaller available
\* width and got that as its desired width.
C16_Witness ==
    /\ call.op = "update"
    /\ \E i \in DOMAIN call.measured :
           LET h == call.measured[i].node
           IN  /\ is_valid_handle(nodes, h)
               /\ nodes[h].width > call.measured[i].available.x
               /\ nodes[h].desired_size.x = call.measured[i].available.x

C18_SecondUpdateChangesNothing ==
    call.op = "update" /\ call.again => Layout(nodes) = call.before

\* The second of two update calls in a row returned, for a tree with a
\* button linked under a node, whose text is not at the origin.
C18_Witness ==
    /\ call.op = "update"
    /\ call.again
    /\ \E h \in DOMAIN nodes :
           /\ is_valid_handle(nodes, h)
           /\ nodes[h].kind.tag = "Text"
           /\ nodes[h].screen_position # Vec2_new
           /\ nodes[nodes[nodes[h].parent].parent].parent # root_canvas

\* ------------------------------------------------------------------------
\* Claims about draw
\* ------------------------------------------------------------------------

\* The nodes of the subtrees of the nodes that are Hidden or Collapsed.
NotShown ==
    UNION { Subtree(nodes, h, Len(nodes)) :
              h \in { n \in DOMAIN nodes : /\ is_valid_handle(nodes, n)
                                           /\ nodes[n].visibility # "Visible" } }

RECURSIVE ClipsPaired(_, _, _)
\* The clip pushes and pops from the i-th on are paired, given the nodes
\* whose push has no pop yet: every pop is for the node pushed last, and
\* no push is left at the end.
ClipsPaired(clips, i, open) ==
    IF i > Len(clips)
    THEN open = << >>
    ELSE IF clips[i].op = "push"
    THEN ClipsPaired(clips, i + 1, Append(open, clips[i].node))
    ELSE /\ open # << >>
         /\ open[Len(open)] = clips[i].node
         /\ ClipsPaired(clips, i + 1, SubSeq(open, 1, Len(open) - 1))

Routing == call.op \in {"route_event", "routed"}

\* C12 (as claimed): while an event is routed and when its routing has
\* ended, no node was visited twice: the handler of each node ran at most
\* once for the event, so the routing ends after at most as many
\* route_event calls as there are nodes.
C12_RouteVisitsEachNodeOnce ==
    Routing =>
        /\ Len(call.steps) <= Len(nodes)
        /\ \A i, j \in DOMAIN call.steps :
               i # j => call.steps[i].node # call.steps[j].node

\* A handler that unlinks its node ran in one of the first k steps.
UnlinkedBefore(k) ==
    \E i \in 1 .. k : \E j \in DOMAIN call.steps[i].ran :
        call.steps[i].ran[j].handler = "host_unlink"

\* C13: the first route_event call is for the target and every further one
\* for the parent of the node before it (the parent the tree had when the
\* event came, as long as no handler has changed a link); the handler a
\* node has for the event type runs when the node is reached, and nothing
\* runs on a node without one; no route_event call follows one that left
\* handled = true; the routing ends only at a handled event or at a node
\* without parent.
C13_HandlersRunChildToRoot ==
    Routing =>
        /\ Len(call.steps) >= 1 => call.steps[1].node = call.target
        /\ \A i \in DOMAIN call.steps :
               LET step == call.steps[i]
               IN  /\ i < Len(call.steps) =>
                          /\ call.steps[i + 1].node = step.parent
                          /\ ~step.handled
                   /\ ~UnlinkedBefore(i - 1) => step.parent = call.parents[step.node]
                   /\ IF call.handlers[step.node] = NoHandler
                      THEN step.ran = << >>
                      ELSE /\ Len(step.ran) >= 1
                           /\ step.ran[1].handler = call.handlers[step.node]
                           /\ step.ran[1].node = step.node
        /\ call.op = "routed" /\ Len(call.steps) >= 1 =>
               LET last == call.steps[Len(call.steps)]
               IN  last.handled \/ is_none(last.parent)

\* A routing that ran the handler of the target and of its parent, where the
\* second one set handled, and ended there although the node above has a
\* handler for the event.
C13_Witness ==
    /\ call.op = "routed"
    /\ Len(call.steps) = 2
    /\ call.steps[1].ran # << >>
    /\ call.steps[2].ran # << >>
    /\ call.steps[2].handled
    /\ ~is_none(call.steps[2].parent)
    /\ call.handlers[call.steps[2].parent] # NoHandler

\* ------------------------------------------------------------------------
\* Claims about MouseEnter and MouseLeave
\* ------------------------------------------------------------------------

\* is_mouse_over of node h in pool (false when h does not resolve).
MouseOver(pool, h) == is_valid_handle(pool, h) /\ pool[h].is_mouse_over

\* The places of the route_event calls of the given type in a list routed.
RoutedAt(routed, type) == { i \in DOMAIN routed : routed[i].type = type }

\* The step is process_event(CursorMoved) whose hit test gives a node other
\* than prev_picked_node.
PickChanges ==
    /\ call'.op = "process_event"
    /\ call'.event.type = "CursorMoved"
    /\ hit_test(Self, call'.event.position) # prev_picked_node

\* C14: when process_event(CursorMoved) picks a node other than
\* prev_picked_node, then (a) if the cursor was over the old node, its
\* is_mouse_over is false afterwards and MouseLeave was routed from it once,
\* before any MouseEnter, and otherwise no MouseLeave was routed; (b)
\* MouseEnter was routed, once and from the new node, exactly when the new
\* node resolves and the cursor was not over it; (c) afterwards picked_node
\* is the hit-test result and prev_picked_node equals it.
C14_LeaveBeforeEnter ==
    [][PickChanges =>
        LET picked == hit_test(Self, call'.event.position)
            routed == call'.routed
            leaves == RoutedAt(routed, "MouseLeave")
            enters == RoutedAt(routed, "MouseEnter")
        IN  /\ IF MouseOver(nodes, prev_picked_node)
               THEN /\ ~MouseOver(nodes', prev_picked_node)
                    /\ Cardinality(leaves) = 1
                    /\ \A i \in leaves : /\ routed[i].target = prev_picked_node
                                         /\ \A j \in enters : i < j
               ELSE leaves = {}
            /\ IF is_valid_handle(nodes, picked) /\ ~MouseOver(nodes, picked)
               THEN /\ Cardinality(enters) = 1
                    /\ \A j \in enters : routed[j].target = picked
                    /\ MouseOver(nodes', picked)
               ELSE enters = {}
            /\ picked_node' = picked
            /\ prev_picked_node' = picked
    ]_vars

\* The cursor went from one button to another in one event: MouseLeave was
\* routed from the border of the first and then MouseEnter from the border
\* of the second.
C14_Witness ==
    /\ call.op = "process_event"
    /\ call.event.type = "CursorMoved"
    /\ Len(call.routed) = 3
    /\ call.routed[1].type = "MouseLeave"
    /\ call.routed[2].type = "MouseEnter"
    /\ call.routed[1].target # call.routed[2].target
    /\ ~is_none(call.routed[1].target)
    /\ call.routed[2].target = picked_node
    /\ prev_picked_node = picked_node

\* ------------------------------------------------------------------------
\* Claims about clipping, faults and freed nodes
\* ------------------------------------------------------------------------

\* The ancestors of node h: the nodes met when following parent fields from
\* its parent on.
Ancestors(h) ==
    IF is_valid_handle(nodes, h) THEN ParentChain(nodes[h].parent, Len(nodes)) ELSE {}

\* C21: for every cursor position, a node that contains the point has no
\* ancestor whose clip rejects the point: is_node_clipped is false for every
\* ancestor.
C21_AncestorsPassClip ==
    \A pt \in Points : \A a \in DOMAIN nodes :
        is_node_contains_point(Self, a, pt) =>
            \A b \in Ancestors(a) : ~is_node_clipped(Self, b, pt)

\* After a frame, the border of a button that lies under a plain node
\* contains a cursor position, and the three nodes above it pass it.
C21_Witness ==
    /\ call.op = "draw"
    /\ \E pt \in Points : \E a \in DOMAIN nodes :
           /\ is_node_contains_point(Self, a, pt)
           /\ Cardinality(Ancestors(a)) = 3
           /\ \A b \in Ancestors(a) : ~is_node_clipped(Self, b, pt)

FreedInRoute ==
    { call.steps[i].node : i \in { j \in DOMAIN call.steps :
          \E k \in DOMAIN call.steps[j].ran :
              call.steps[j].ran[k].handler = FreeingHandler } }

PlainCell(h) == is_nan(nodes[h].width) /\ is_nan(nodes[h].height)

MeasuredUnbounded ==
    { h \in DOMAIN nodes :
        /\ is_valid_handle(nodes, h)
        /\ nodes[h].visibility = "Visible"
        /\ \E i \in DOMAIN call.measured :
               /\ call.measured[i].node = h
               /\ call.measured[i].available = Vec2_make(INFINITY, INFINITY) }

\* C25: after update, the desired size less the margin of every visible
\* node measured with an unbounded available size lies between min_size and
\* max_size on the x axis and on the y axis, also for a node with an
\* explicit width or height outside that range.
C25_DesiredWithinMinMax ==
    call.op = "update" =>
        \A h \in MeasuredUnbounded :
            LET n == nodes[h]
                x == n.desired_size.x - (n.margin.left + n.margin.right)
                y == n.desired_size.y - (n.margin.top + n.margin.bottom)
            IN  /\ n.min_size.x <= x /\ x <= n.max_size.x
                /\ n.min_size.y <= y /\ y <= n.max_size.y

\* ------------------------------------------------------------------------
\* Claims on nodes that are not visible and on the frames after the first
\* ------------------------------------------------------------------------

\* The nodes that are Hidden or Collapsed.
NotVisible ==
    { h \in DOMAIN nodes : is_valid_handle(nodes, h) /\ nodes[h].visibility # "Visible" }

\* C26: the arrange call of update on a node that is not Visible leaves
\* actual_size and actual_local_position of the node and of all its
\* descendants as they were.
C26_ArrangeSkipsNotVisible ==
    [][call'.op = "update" =>
          \A h \in NotVisible : \A d \in Subtree(nodes, h, Len(nodes)) :
              /\ is_valid_handle(nodes', d)
              /\ nodes'[d].actual_size = nodes[d].actual_size
              /\ nodes'[d].actual_local_position = nodes[d].actual_local_position]_vars

\* An update has arranged the parent of a node that is not Visible and has
\* descendants.
C26_Witness ==
    /\ call.op = "update"
    /\ \E h \in NotVisible :
           /\ nodes[h].children # << >>
           /\ \E i \in DOMAIN call.arranged : call.arranged[i].node = nodes[h].parent

RECURSIVE EmittedBy(_, _, _)
\* The command indices node h pushed during the draw that entered the list
\* drawn, from its i-th entry on.
EmittedBy(drawn, h, i) ==
    IF i > Len(drawn)
    THEN << >>
    ELSE (IF drawn[i].node = h THEN drawn[i].indices ELSE << >>)
         \o EmittedBy(drawn, h, i + 1)

\* C27: after every draw, the second and the later ones included, the
\* command_indices of each node are the indices of the commands the node
\* emitted in this frame, each one a command of the current buffer; no
\* index of an earlier frame is left.
C27_CommandIndicesOfThisFrame ==
    call.op = "draw" =>
        \A h \in DOMAIN nodes :
            is_valid_handle(nodes, h) =>
                /\ nodes[h].command_indices = EmittedBy(call.drawn, h, 1)
                /\ \A i \in DOMAIN nodes[h].command_indices :
                       dc_has_command(drawing_context, nodes[h].command_indices[i])

\* The entries of the last draw for text nodes whose font handle did not
\* resolve in the font cache of that draw.
DrawnWithoutFont ==
    { i \in DOMAIN call.drawn :
        /\ nodes[call.drawn[i].node].kind.tag = "Text"
        /\ ~font_resolves(call.font_cache, nodes[call.drawn[i].node].kind.font) }

\* C28: a text node whose font handle does not resolve during a draw emits
\* no text command in that frame (its clip command alone), and its
\* need_update stays true.
C28_NoTextCommandWithoutFont ==
    call.op = "draw" =>
        \A i \in DrawnWithoutFont :
            /\ Len(call.drawn[i].indices) = 1
            /\ nodes[call.drawn[i].node].kind.need_update

\* The nodes whose formatted text the last draw rebuilt.
Rebuilt(c) == { c.drawn[i].node : i \in { j \in DOMAIN c.drawn : c.drawn[j].rebuilt } }

\* C29: after a draw that rebuilt the formatted text of a node, need_update
\* of the node is false, and a draw that follows it with no mutation in
\* between does not rebuild the text again.
C29_RebuildClearsNeedUpdate ==
    [][call'.op = "draw" =>
          /\ \A h \in Rebuilt(call') : ~nodes'[h].kind.need_update
          /\ call.op = "draw" => Rebuilt(call) \cap Rebuilt(call') = {}]_vars

\* ------------------------------------------------------------------------
\* Claims about the colours of a button
\* ------------------------------------------------------------------------

\* The places in the list invoked where a handler of node b ran that sets a
\* colour whatever the state of the node is.
ColourHandlersOf(invoked, b) ==
    { i \in DOMAIN invoked :
        /\ invoked[i].node = b
        /\ invoked[i].handler \in {"back_mouse_enter", "back_mouse_leave", "back_mouse_down"} }

\* The step is process_event(CursorMoved) whose hit test gives a border
\* other than prev_picked_node.
PicksBorder ==
    /\ PickChanges
    /\ is_valid_handle(nodes, hit_test(Self, call'.event.position))
    /\ nodes[hit_test(Self, call'.event.position)].kind.tag = "Border"

\* C30: after process_event, the border child of a button whose MouseEnter,
\* MouseLeave or MouseDown handler ran last in the call has the hover, the
\* normal or the pressed colour; a CursorMoved that newly picks the border
\* routes MouseEnter from it, leaves it in the hover colour and leaves
\* prev_picked_node equal to it.
C30_BorderColourFollowsEvents ==
    [][call'.op = "process_event" =>
          /\ \A b \in DOMAIN nodes' :
                 \A i \in ColourHandlersOf(call'.invoked, b) :
                     ( /\ is_valid_handle(nodes', b)
                       /\ \A j \in DOMAIN call'.invoked :
                              j > i => call'.invoked[j].node # b )
                     => nodes'[b].color =
                            CASE call'.invoked[i].handler = "back_mouse_enter" -> hover_color
                              [] call'.invoked[i].handler = "back_mouse_leave" -> normal_color
                              [] call'.invoked[i].handler = "back_mouse_down" -> pressed_color
          /\ PicksBorder =>
                 LET border == hit_test(Self, call'.event.position)
                 IN  /\ \E i \in RoutedAt(call'.routed, "MouseEnter") :
                            call'.routed[i].target = border
                     /\ \E i \in DOMAIN call'.invoked :
                            /\ call'.invoked[i].node = border
                            /\ call'.invoked[i].handler = "back_mouse_enter"
                     /\ nodes'[border].color = hover_color
                     /\ prev_picked_node' = border
    ]_vars

\* The colour handlers ran on the border of a button: the border the cursor
\* has just entered is in the hover colour and is prev_picked_node, and a
\* border the cursor has just left is in the normal colour.
C30_Witness ==
    /\ call.op = "process_event"
    /\ call.event.type = "CursorMoved"
    /\ \E i, j \in DOMAIN call.invoked :
           /\ call.invoked[i].handler = "back_mouse_leave"
           /\ call.invoked[j].handler = "back_mouse_enter"
           /\ nodes[call.invoked[i].node].color = normal_color
           /\ nodes[call.invoked[j].node].color = hover_color
           /\ prev_picked_node = call.invoked[j].node

\* MouseDown was routed from the border under the cursor: it is in the
\* pressed colour.
C30_WitnessPressed ==
    /\ call.op = "process_event"
    /\ \E i \in DOMAIN call.invoked :
           /\ call.invoked[i].handler = "back_mouse_down"
           /\ nodes[call.invoked[i].node].color = pressed_color

\* ------------------------------------------------------------------------
\* Claims about is_mouse_over, negative sizes and nodes that are not shown
\* ------------------------------------------------------------------------

\* The nodes the cursor is over, as is_mouse_over says.
UnderCursor == { h \in DOMAIN nodes : MouseOver(nodes, h) }

\* C31: after every process_event call at most one node has is_mouse_over
\* true, and if one has, it is prev_picked_node.
C31_OneNodeUnderCursor ==
    call.op = "process_event" =>
        /\ Cardinality(UnderCursor) <= 1
        /\ \A h \in UnderCursor : h = prev_picked_node

\* The cursor went from one node to another: MouseLeave was routed from the
\* first, and the second is the one node with is_mouse_over.
C31_Witness ==
    /\ call.op = "process_event"
    /\ RoutedAt(call.routed, "MouseLeave") # {}
    /\ RoutedAt(call.routed, "MouseEnter") # {}
    /\ UnderCursor = {prev_picked_node}

\* C32: after the measure pass of update, desired_size of every node is not
\* negative on either axis, also for the child of a Border whose strokes
\* are wider than the size the Border was offered.
C32_DesiredSizeNotNegative ==
    call.op = "update" =>
        \A h \in DOMAIN nodes :
            is_valid_handle(nodes, h) =>
                nodes[h].desired_size.x >= 0 /\ nodes[h].desired_size.y >= 0

\* The cursor positions of the hit tests below: the positions the window
\* system reports, and the origin, where a node that was never arranged is
\* drawn.
HitPoints == Points \cup {Vec2_new}

\* Node h and all its ancestors are Visible.
Shown(h) ==
    \A a \in {h} \cup Ancestors(h) :
        is_valid_handle(nodes, a) => nodes[a].visibility = "Visible"

\* C33: for every cursor position, hit_test returns the null handle or a
\* node that is Visible and has no ancestor that is not Visible.
C33_HitTestReturnsShownNode ==
    \A pt \in HitPoints :
        is_valid_handle(nodes, hit_test(Self, pt)) => Shown(hit_test(Self, pt))

\* A frame drew the border of a button that lies under a node that is not
\* Visible, its geometry contains a cursor position, and hit_test does not
\* return it.
C33_Witness ==
    /\ call.op = "draw"
    /\ \E pt \in HitPoints : \E b \in DOMAIN nodes :
           /\ is_valid_handle(nodes, b)
           /\ ~Shown(b)
           /\ \E i \in DOMAIN nodes[b].command_indices :
                  /\ dc_has_command(drawing_context, nodes[b].command_indices[i])
                  /\ dc_command(drawing_context, nodes[b].command_indices[i]).kind
                         = "Geometry"
                  /\ is_command_contains_point(drawing_context,
                         dc_command(drawing_context, nodes[b].command_indices[i]), pt)
           /\ hit_test(Self, pt) # b

\* ------------------------------------------------------------------------
\* Claims about the handler slot during route_event
\* ------------------------------------------------------------------------

\* The nodes the route_event calls recorded in call were made for.
Visited == { call.steps[i].node : i \in DOMAIN call.steps }

\* The entries of the handlers that ran during the routing recorded in call.
RanInRoute ==
    UNION { { call.steps[i].ran[j] : j \in DOMAIN call.steps[i].ran } :
            i \in DOMAIN call.steps }

\* C40: when route_event has returned, the slot for the routed event kind
\* of every visited node that still resolves holds the handler it held when
\* the routing reached the node, also when the handler installed another
\* one in that slot while it ran; a handler that reads its slot while it
\* runs finds it empty.
C40_SlotRestoredAfterRoute ==
    /\ call.op = "routed" =>
           \A v \in Visited :
               is_valid_handle(nodes, v) =>
                   nodes[v].event_handlers[call.type] = call.handlers[v]
    /\ Routing =>
           \A e \in RanInRoute :
               e.handler = InstallingHandler => e.slot = NoHandler

\* A routing has ended in which the handler of a node installed another
\* handler in its slot; the node resolves.
C40_Witness ==
    /\ call.op = "routed"
    /\ \E e \in RanInRoute :
           /\ e.handler = InstallingHandler
           /\ e.node \in Visited
           /\ is_valid_handle(nodes, e.node)
           /\ call.handlers[e.node] = InstallingHandler

\* ------------------------------------------------------------------------
\* Claims about TextureKind
\* ------------------------------------------------------------------------

\* C39: TextureKind::new is the partial inverse of TextureKind::id:
\* new(k.id()) is Ok(k) for every kind k; a visit that reads the id 0, 1 or
\* 2 gets Ok of a kind with that id, and a visit that reads any other id
\* gets Err.
C39_NewInvertsId ==
    /\ \A k \in TextureKinds :
           TextureKind_new(TextureKind_id(k)) = [ok |-> TRUE, kind |-> k]
    /\ call.op = "visit_read" =>
           IF call.KindId \in {0, 1, 2}
           THEN /\ call.result.ok
                /\ call.result.kind \in TextureKinds
                /\ TextureKind_id(call.result.kind) = call.KindId
           ELSE ~call.result.ok

\* A visit read the id of the kind the texture had and left the texture
\* with that kind.
C39_Witness ==
    /\ call.op = "visit_read"
    /\ call.result.ok
    /\ call.KindId = TextureKind_id(call.before)
    /\ call.kind = call.before

\* A visit read an id that names no kind and ended with the error.
C39_WitnessInvalid ==
    /\ call.op = "visit_read"
    /\ ~call.result.ok
    /\ call.KindId > 2

\* ------------------------------------------------------------------------
\* Claims about the editor
\* ------------------------------------------------------------------------

\* How many times x occurs in the slice s.
Occurrences(s, x) == Cardinality({ i \in DOMAIN s : s[i] = x })

\* b holds the elements of a, each one as many times as a does.
IsPermutation(a, b) ==
    /\ Len(a) = Len(b)
    /\ \A i \in DOMAIN a : Occurrences(a, a[i]) = Occurrences(b, a[i])

\* C34 (as claimed): is_slice_equal_permutation(a, b) is true exactly when
\* b is a permutation of a, and it gives the same result for (b, a).
C34_TrueExactlyForPermutations ==
    call.op = "is_slice_equal_permutation" =>
        /\ call.result <=> IsPermutation(call.a, call.b)
        /\ call.result = is_slice_equal_permutation(call.b, call.a)



\* The messages of the user interface that carry MSG_SYNC_FLAG.
Synced(messages) ==
    \A i \in DOMAIN messages : has_flags(messages[i], MSG_SYNC_FLAG)

\* C35: handle_ui_message ignores every message of the user interface that
\* carries MSG_SYNC_FLAG: after a frame no panel handler has run for such a
\* message, and when every message polled in the frame carried the flag the
\* channel of the editor holds what Editor::update left in it, so none of
\* them made the editor send a Message.
C35_SyncMessagesIgnored ==
    call.op = "update" =>
        /\ \A i \in DOMAIN editor.handled :
               ~has_flags(editor.handled[i].message, MSG_SYNC_FLAG)
        /\ Synced(call.polled) => editor.messages = call.sent

\* A frame polled the synced answer No of the exit message box while a scene
\* was open: no handler ran, no Exit was sent and the editor keeps running.
C35_Witness ==
    /\ call.op = "update"
    /\ call.polled # << >>
    /\ Synced(call.polled)
    /\ call.polled[1].data = "MessageBoxMessage::Close"
    /\ call.polled[1].result = "No"
    /\ editor.scene.is_some
    /\ editor.handled = << >>
    /\ editor.messages = << >>
    /\ ~editor.exit

\* C36: once the editor is back in Edit mode no scene made for or during
\* play mode is left in the engine, and every scene that was there when play
\* mode was entered (and was not closed or replaced since) is still there.
C36_PlayScenesGoneInEditMode ==
    editor.mode.tag = "Edit" =>
        /\ editor.play_scenes \cap editor.scenes = {}
        /\ editor.kept \subseteq editor.scenes

\* The paths of the SaveScene messages the last Editor::update received.
SavesAsked ==
    { call.received[i].path :
        i \in { j \in DOMAIN call.received : call.received[j].type = "SaveScene" } }

\* C37: when the answer Yes in the exit message box made the editor save the
\* open scene under its path, the exit flag is set only if save_current_scene
\* ran for that path and succeeded.
C37_ExitOnlyAfterSave ==
    (call.op = "update" /\ editor.exit /\ editor.scene.is_some) =>
        \A p \in SavesAsked :
            p = editor.scene.path =>
                \E i \in DOMAIN editor.saves :
                    editor.saves[i] = [path |-> p, ok |-> TRUE]

\* C38: while a scene is open and current_interaction_mode is Some(k), the
\* object interaction_modes[k] is active: activate was called on it after
\* it was created and after its last deactivate.
C38_CurrentInteractionModeActive ==
    (editor.scene.is_some /\ editor.current_interaction_mode # None) =>
        editor.interaction_modes[editor.current_interaction_mode].active
====
